---- MODULE Spec2Model ----
(***************************************************************************)
(* State-machine model of the vLLM prefill/decode scheduler:               *)
(*   WorkerPool, PDScheduler (submit, dispatch, runPipeline, fail),        *)
(*   KVCacheTransferManager and HealthMonitor (counters, windows, events). *)
(* Every asynchronous function is cut at its awaits: the code between two  *)
(* awaits runs to completion on the single JavaScript thread and is one    *)
(* action here.                                                            *)
(***************************************************************************)
EXTENDS Integers, Sequences, FiniteSets, TLC

\* ------------------------------------------------------------------------
\* Bounds of the model
\* ------------------------------------------------------------------------
\* accepted submissions per behaviour
MaxRequests == 2
\* the clock (Date.now(), in model ticks) runs from 0 to MaxTime
MaxTime == 2
\* config.defaultRequestTimeoutMs of the modelled configurations
DefaultRequestTimeoutMs == 1
\* largest kvTransfer.maxConcurrent among the modelled configurations
MaxKvConcurrent == 2
\* transfer() calls per behaviour of the transfer manager on its own
MaxKvJobs == 4
\* accepted submissions per behaviour of the queue on its own
MaxQueued == 3
\* accepted submissions per behaviour under fairness
MaxLiveRequests == 1

\* the WorkerPool on its own: activeRequests values tried, and selectRoundRobin
\* calls per role
MaxActive == 2
MaxRoundRobin == 2
\* calls of select(role, "round-robin") whose results are recorded
MaxSelections == 4
\* config.workerTimeoutMs, and health ticks run
WorkerTimeoutMs == 1
MaxHealthTicks == 2

\* ------------------------------------------------------------------------
\* Program constants
\* ------------------------------------------------------------------------
WINDOW_SIZE == 200
EVENT_LOG_CAP == 1000
DEFAULT_MAX_CONCURRENCY == 32

Undefined == "undefined"
\* an optional number that was not given (maxConcurrency?, timeoutMs?)
NoNumber == -1
NoWorker == "none"

Priorities == {"high", "normal", "low"}
Roles == {"prefill", "decode"}

PRIORITY_ORDER(p) ==
  CASE p = "high" -> 0
    [] p = "normal" -> 1
    [] p = "low" -> 2

VARIABLES
  now,          \* Date.now()
  config,       \* PDSchedulerConfig: maxQueueSize, strategy
  idCounter,    \* module-level idCounter of generateRequestId
  pool,         \* WorkerPool: workers (in Map insertion order), roundRobinCounters
  kvManager,    \* KVCacheTransferManager: maxConcurrent, activeTransfers, pending,
                \* the jobs inside executeTransfer, and every job in call order
  health,       \* HealthMonitor: counters, latency windows, eventLog, timer; the
                \* interval timers set, every event emitted, every sample recorded
  sched,        \* PDScheduler: queue, inflight, activePrefills, activeDecodes,
                \* dispatchTimer, running; the interval timers set, the latest of start/stop
  requests,     \* the InferenceRequest objects, by requestId
  promises,     \* the promise returned by submit, by requestId, with its rejection error
  pc,           \* where each request's runPipeline is suspended
  lastSubmit    \* outcome of the latest submit call

vars == <<now, config, idCounter, pool, kvManager, health, sched, requests,
          promises, pc, lastSubmit>>

\* The whole program state as one value, so that the code's functions are
\* operators from state to state.
World ==
  [now |-> now, config |-> config, idCounter |-> idCounter, pool |-> pool,
   kvManager |-> kvManager, health |-> health, sched |-> sched,
   requests |-> requests, promises |-> promises, pc |-> pc,
   lastSubmit |-> lastSubmit]

Commit(w) ==
  /\ now' = w.now
  /\ config' = w.config
  /\ idCounter' = w.idCounter
  /\ pool' = w.pool
  /\ kvManager' = w.kvManager
  /\ health' = w.health
  /\ sched' = w.sched
  /\ requests' = w.requests
  /\ promises' = w.promises
  /\ pc' = w.pc
  /\ lastSubmit' = w.lastSubmit

\* ------------------------------------------------------------------------
\* Sequence helpers
\* ------------------------------------------------------------------------
RECURSIVE FilterSeq(_, _)
FilterSeq(s, keep) ==
  IF s = <<>> THEN <<>>
  ELSE IF Head(s) \in keep THEN <<Head(s)>> \o FilterSeq(Tail(s), keep)
       ELSE FilterSeq(Tail(s), keep)

RECURSIVE ReverseSeq(_)
ReverseSeq(s) ==
  IF s = <<>> THEN <<>> ELSE Append(ReverseSeq(Tail(s)), Head(s))

SeqSet(s) == {s[i] : i \in 1..Len(s)}

\* ------------------------------------------------------------------------
\* What a caller of the WorkerPool sees: the latest call with its arguments
\* and the ids it returned
\* ------------------------------------------------------------------------
Call(op, target, strategy, timeoutMs, ret) ==
  [op |-> op, target |-> target, strategy |-> strategy,
   timeoutMs |-> timeoutMs, ret |-> ret]

NoCall == Call("none", "", "", NoNumber, {})

\* ------------------------------------------------------------------------
\* WorkerPool
\* ------------------------------------------------------------------------
WorkerIndex(ws, id) ==
  IF \E i \in 1..Len(ws) : ws[i].id = id
  THEN CHOOSE i \in 1..Len(ws) : ws[i].id = id
  ELSE 0

HasWorker(ws, id) == WorkerIndex(ws, id) # 0

GetWorker(ws, id) == ws[WorkerIndex(ws, id)]

\* a mutant of register: the runtime state starts afresh on every call
registerResets(p, seed, at) ==
  LET ws == p.workers
      i == WorkerIndex(ws, seed.id)
      info == [id |-> seed.id, role |-> seed.role, status |-> "idle",
               gpuUtilization |-> 0, activeRequests |-> 0,
               maxConcurrency |-> IF seed.maxConcurrency = NoNumber
                                  THEN DEFAULT_MAX_CONCURRENCY
                                  ELSE seed.maxConcurrency,
               lastHealthCheck |-> at]
  IN [p EXCEPT !.workers = IF i # 0 THEN [ws EXCEPT ![i] = info]
                           ELSE Append(ws, info)]

\* register(seed): status, gpuUtilization and activeRequests are kept when the
\* id is already present; Map.set keeps the position of an existing key.
register(p, seed, at) ==
  LET ws == p.workers
      i == WorkerIndex(ws, seed.id)
      info == [id |-> seed.id,
               role |-> seed.role,
               status |-> IF i # 0 THEN ws[i].status ELSE "idle",
               gpuUtilization |-> IF i # 0 THEN ws[i].gpuUtilization ELSE 0,
               activeRequests |-> IF i # 0 THEN ws[i].activeRequests ELSE 0,
               maxConcurrency |-> IF seed.maxConcurrency = NoNumber
                                  THEN DEFAULT_MAX_CONCURRENCY
                                  ELSE seed.maxConcurrency,
               lastHealthCheck |-> at]
  IN [p EXCEPT !.workers = IF i # 0 THEN [ws EXCEPT ![i] = info]
                           ELSE Append(ws, info)]

RECURSIVE list(_, _)
list(ws, role) ==
  IF ws = <<>> THEN <<>>
  ELSE IF Head(ws).role = role THEN <<Head(ws)>> \o list(Tail(ws), role)
       ELSE list(Tail(ws), role)

\* a mutant of IsAvailable: the status is not looked at
IsAvailableAnyStatus(w) == w.activeRequests < w.maxConcurrency

IsAvailable(w) ==
  /\ w.status \in {"idle", "busy"}
  /\ w.activeRequests < w.maxConcurrency

RECURSIVE available(_, _)
available(ws, role) ==
  IF ws = <<>> THEN <<>>
  ELSE IF Head(ws).role = role /\ IsAvailable(Head(ws))
       THEN <<Head(ws)>> \o available(Tail(ws), role)
       ELSE available(Tail(ws), role)

\* a mutant of selectLeastLoaded: among equally loaded workers the last wins
RECURSIVE selectLeastLoadedLastTie(_)
selectLeastLoadedLastTie(cands) ==
  IF Len(cands) = 1 THEN cands[1]
  ELSE LET best == selectLeastLoadedLastTie(SubSeq(cands, 1, Len(cands) - 1))
           cur == cands[Len(cands)]
       IN IF cur.activeRequests <= best.activeRequests THEN cur ELSE best

RECURSIVE selectLeastLoaded(_)
selectLeastLoaded(cands) ==
  IF Len(cands) = 1 THEN cands[1]
  ELSE LET best == selectLeastLoaded(SubSeq(cands, 1, Len(cands) - 1))
           cur == cands[Len(cands)]
       IN IF cur.activeRequests < best.activeRequests THEN cur ELSE best

RECURSIVE selectLatencyAware(_)
selectLatencyAware(cands) ==
  IF Len(cands) = 1 THEN cands[1]
  ELSE LET best == selectLatencyAware(SubSeq(cands, 1, Len(cands) - 1))
           cur == cands[Len(cands)]
       IN IF cur.gpuUtilization < best.gpuUtilization THEN cur ELSE best

\* a mutant of select: selectRoundRobin advances the counter by two
selectSkipping(p, role, strategy) ==
  LET cands == available(p.workers, role)
  IN IF Len(cands) = 0 THEN [worker |-> NoWorker, pool |-> p]
     ELSE CASE strategy = "round-robin" ->
                 [worker |-> cands[(p.roundRobinCounters[role] % Len(cands)) + 1].id,
                  pool |-> [p EXCEPT !.roundRobinCounters[role] = @ + 2]]
            [] strategy = "least-loaded" ->
                 [worker |-> selectLeastLoaded(cands).id, pool |-> p]
            [] strategy = "latency-aware" ->
                 [worker |-> selectLatencyAware(cands).id, pool |-> p]
            [] OTHER -> [worker |-> cands[1].id, pool |-> p]

\* select(role, strategy): the chosen worker id (NoWorker for undefined) and
\* the pool afterwards (selectRoundRobin advances the role's counter).
select(p, role, strategy) ==
  LET cands == available(p.workers, role)
  IN IF Len(cands) = 0 THEN [worker |-> NoWorker, pool |-> p]
     ELSE CASE strategy = "round-robin" ->
                 [worker |-> cands[(p.roundRobinCounters[role] % Len(cands)) + 1].id,
                  pool |-> [p EXCEPT !.roundRobinCounters[role] = @ + 1]]
            [] strategy = "least-loaded" ->
                 [worker |-> selectLeastLoaded(cands).id, pool |-> p]
            [] strategy = "latency-aware" ->
                 [worker |-> selectLatencyAware(cands).id, pool |-> p]
            [] OTHER -> [worker |-> cands[1].id, pool |-> p]

incrementActive(p, id) ==
  LET i == WorkerIndex(p.workers, id)
  IN IF i = 0 THEN p
     ELSE LET n == p.workers[i].activeRequests + 1
          IN [p EXCEPT !.workers[i].activeRequests = n,
                       !.workers[i].status =
                          IF n >= p.workers[i].maxConcurrency THEN "busy" ELSE @]

\* a mutant of decrementActive: any status becomes idle below maxConcurrency
decrementActiveAnyStatus(p, id) ==
  LET i == WorkerIndex(p.workers, id)
  IN IF i = 0 THEN p
     ELSE LET n == IF p.workers[i].activeRequests - 1 > 0
                   THEN p.workers[i].activeRequests - 1 ELSE 0
          IN [p EXCEPT !.workers[i].activeRequests = n,
                       !.workers[i].status =
                          IF n < p.workers[i].maxConcurrency THEN "idle" ELSE @]

decrementActive(p, id) ==
  LET i == WorkerIndex(p.workers, id)
  IN IF i = 0 THEN p
     ELSE LET n == IF p.workers[i].activeRequests - 1 > 0
                   THEN p.workers[i].activeRequests - 1 ELSE 0
          IN [p EXCEPT !.workers[i].activeRequests = n,
                       !.workers[i].status =
                          IF @ = "busy" /\ n < p.workers[i].maxConcurrency
                          THEN "idle" ELSE @]

\* remove(workerId): Map.delete
remove(p, id) ==
  [p EXCEPT !.workers = SelectSeq(@, LAMBDA w : w.id # id)]

\* updateMetrics(workerId, metrics): a field that is undefined (NoNumber for
\* the numbers, Undefined for the status) is left alone; lastHealthCheck is
\* refreshed in any case
updateMetrics(p, id, metrics, at) ==
  LET i == WorkerIndex(p.workers, id)
  IN IF i = 0 THEN p
     ELSE [p EXCEPT
             !.workers[i].gpuUtilization =
                IF metrics.gpuUtilization # NoNumber THEN metrics.gpuUtilization ELSE @,
             !.workers[i].activeRequests =
                IF metrics.activeRequests # NoNumber THEN metrics.activeRequests ELSE @,
             !.workers[i].status =
                IF metrics.status # Undefined THEN metrics.status ELSE @,
             !.workers[i].lastHealthCheck = at]

markOffline(p, id) ==
  LET i == WorkerIndex(p.workers, id)
  IN IF i = 0 THEN p ELSE [p EXCEPT !.workers[i].status = "offline"]

\* expireStaleWorkers(timeoutMs): the pool afterwards and the returned ids,
\* in Map order
\* a mutant of Stale: a worker that is already offline expires again
StaleOrOffline(w, timeoutMs, at) == at - w.lastHealthCheck > timeoutMs

Stale(w, timeoutMs, at) ==
  w.status # "offline" /\ at - w.lastHealthCheck > timeoutMs

expireStaleWorkers(p, timeoutMs, at) ==
  LET ws == p.workers
      hit == SelectSeq(ws, LAMBDA w : Stale(w, timeoutMs, at))
  IN [pool |-> [p EXCEPT !.workers =
                   [i \in 1..Len(ws) |->
                      IF Stale(ws[i], timeoutMs, at)
                      THEN [ws[i] EXCEPT !.status = "offline"] ELSE ws[i]]],
      expired |-> [i \in 1..Len(hit) |-> hit[i].id]]

\* ------------------------------------------------------------------------
\* HealthMonitor: event log, counters, latency windows
\* ------------------------------------------------------------------------
Event(kind, id) == [kind |-> kind, id |-> id]

\* a mutant of LogPush: the log is cut when it reaches the cap
LogPushCutsAtCap(log, event) ==
  LET l == Append(log, event)
  IN IF Len(l) >= EVENT_LOG_CAP THEN Tail(l) ELSE l

\* eventLog.push(event); if (eventLog.length > 1000) eventLog.shift()
LogPush(log, event) ==
  LET l == Append(log, event)
  IN IF Len(l) > EVENT_LOG_CAP THEN Tail(l) ELSE l

\* history: every event ever emitted, oldest first
emit(w, kind, id) ==
  [w EXCEPT !.health.eventLog = LogPush(@, Event(kind, id)),
            !.health.history = Append(@, Event(kind, id))]

\* Array.prototype.slice(start) for a start that may be negative
Slice(log, start) ==
  LET k == IF start < 0
           THEN (IF Len(log) + start > 0 THEN Len(log) + start ELSE 0)
           ELSE (IF start < Len(log) THEN start ELSE Len(log))
  IN SubSeq(log, k + 1, Len(log))

\* the default of recentEvents' limit
DEFAULT_LIMIT == 50

\* recentEvents(limit = 50): eventLog.slice(-limit)
recentEvents(w, limit) ==
  Slice(w.health.eventLog, 0 - (IF limit = NoNumber THEN DEFAULT_LIMIT ELSE limit))

\* LatencyWindow.push
WindowPush(samples, value) ==
  LET l == Append(samples, value)
  IN IF Len(l) > WINDOW_SIZE THEN Tail(l) ELSE l

RECURSIVE SumSeq(_)
SumSeq(samples) ==
  IF Len(samples) = 0 THEN 0
  ELSE IF Len(samples) = 1 THEN samples[1]
  ELSE LET h == Len(samples) \div 2
       IN SumSeq(SubSeq(samples, 1, h))
            + SumSeq(SubSeq(samples, h + 1, Len(samples)))

\* LatencyWindow.average: the quotient sum / length as a fraction, 0 for an
\* empty window
average(samples) ==
  IF Len(samples) = 0 THEN [num |-> 0, den |-> 1]
  ELSE [num |-> SumSeq(samples), den |-> Len(samples)]

\* a mutant of MathRound: the fraction is cut off
MathTrunc(q) == q.num \div q.den

\* Math.round of a fraction that is not negative: floor(q + 1/2)
MathRound(q) == (2 * q.num + q.den) \div (2 * q.den)

\* the counters and averages of HealthMonitor.snapshot
snapshot(w) ==
  [queueDepth |-> Len(w.sched.queue),
   activePrefills |-> w.sched.activePrefills,
   activeTransfers |-> w.kvManager.activeTransfers,
   activeDecodes |-> w.sched.activeDecodes,
   totalCompleted |-> w.health.counters.completed,
   totalFailed |-> w.health.counters.failed,
   avgLatencyMs |-> MathRound(average(w.health.latency.total)),
   avgPrefillLatencyMs |-> MathRound(average(w.health.latency.prefill)),
   avgDecodeLatencyMs |-> MathRound(average(w.health.latency.decode))]

\* recorded: every sample ever pushed on each window, oldest first
recordCompletion(w, totalMs, prefillMs, decodeMs) ==
  [w EXCEPT !.health.counters.completed = @ + 1,
            !.health.latency.total = WindowPush(@, totalMs),
            !.health.latency.prefill = WindowPush(@, prefillMs),
            !.health.latency.decode = WindowPush(@, decodeMs),
            !.health.recorded.total = Append(@, totalMs),
            !.health.recorded.prefill = Append(@, prefillMs),
            !.health.recorded.decode = Append(@, decodeMs)]

\* a mutant of recordFailure: the failure is not counted
recordFailureForgets(w) == w

recordFailure(w) == [w EXCEPT !.health.counters.failed = @ + 1]

\* ------------------------------------------------------------------------
\* HealthMonitor.runHealthChecks, cut at the await of each client.health and
\* at the await of Promise.allSettled
\* ------------------------------------------------------------------------
\* a worker event carries a workerId and no requestId
WorkerEvent(kind, workerId) == [kind |-> kind, id |-> 0, workerId |-> workerId]

emitWorker(w, kind, workerId) ==
  [w EXCEPT !.health.eventLog = LogPush(@, WorkerEvent(kind, workerId)),
            !.health.history = Append(@, WorkerEvent(kind, workerId))]

\* no runHealthChecks call is under way. probing: the workers whose
\* client.health has not returned; ran: the calls made so far; staleAtStart
\* and logAtStart: which workers were stale and how long the event log was
\* when the latest call began.
NoCheck ==
  [running |-> FALSE, probing |-> {}, ran |-> 0, staleAtStart |-> {},
   logAtStart |-> 0]

\* the result of VllmClient.health: an unhealthy one carries zeros
HealthResult(healthy, gpuUtilization, activeRequests) ==
  [healthy |-> healthy,
   gpuUtilization |-> IF healthy THEN gpuUtilization ELSE 0,
   activeRequests |-> IF healthy THEN activeRequests ELSE 0]

\* from the call to the awaits: one probe per listed worker
runHealthChecksStart(w) ==
  LET ws == w.pool.workers
  IN [w EXCEPT !.health.check =
        [running |-> TRUE,
         probing |-> {ws[i].id : i \in 1..Len(ws)},
         ran |-> @.ran + 1,
         staleAtStart |->
           {ws[i].id : i \in {j \in 1..Len(ws) :
                                w.now - ws[j].lastHealthCheck > w.health.workerTimeoutMs}},
         logAtStart |-> Len(w.health.eventLog)]]

\* a mutant of runHealthChecksProbed: busy only above maxConcurrency
runHealthChecksProbedAbove(w, id, result) ==
  LET w1 == [w EXCEPT !.health.check.probing = @ \ {id}]
  IN IF result.healthy
     THEN [w1 EXCEPT !.pool =
             updateMetrics(@, id,
               [gpuUtilization |-> result.gpuUtilization,
                activeRequests |-> result.activeRequests,
                status |-> IF result.activeRequests >
                                GetWorker(w.pool.workers, id).maxConcurrency
                           THEN "busy" ELSE "idle"],
               w.now)]
     ELSE emitWorker([w1 EXCEPT !.pool = markOffline(@, id)], "worker_offline", id)

\* client.health(worker) returned result: the rest of the map callback
runHealthChecksProbed(w, id, result) ==
  LET w1 == [w EXCEPT !.health.check.probing = @ \ {id}]
  IN IF result.healthy
     THEN [w1 EXCEPT !.pool =
             updateMetrics(@, id,
               [gpuUtilization |-> result.gpuUtilization,
                activeRequests |-> result.activeRequests,
                status |-> IF result.activeRequests >=
                                GetWorker(w.pool.workers, id).maxConcurrency
                           THEN "busy" ELSE "idle"],
               w.now)]
     ELSE emitWorker([w1 EXCEPT !.pool = markOffline(@, id)], "worker_offline", id)

RECURSIVE EmitOffline(_, _)
EmitOffline(w, ids) ==
  IF ids = <<>> THEN w
  ELSE EmitOffline(emitWorker(w, "worker_offline", Head(ids)), Tail(ids))

\* Promise.allSettled returned: expire the stale workers and report them
runHealthChecksEnd(w) ==
  LET r == expireStaleWorkers(w.pool, w.health.workerTimeoutMs, w.now)
      w1 == [w EXCEPT !.pool = [r.pool EXCEPT !.lastCall =
                                  Call("expireStaleWorkers", "", "",
                                       w.health.workerTimeoutMs, SeqSet(r.expired))],
                      !.health.check.running = FALSE]
  IN EmitOffline(w1, r.expired)

\* ------------------------------------------------------------------------
\* PDScheduler.fail
\* ------------------------------------------------------------------------
\* entry.reject / entry.resolve: a promise takes the first settlement only;
\* calls counts every invocation of resolve or reject.
Settle(pr, outcome) ==
  [pr EXCEPT !.state = IF pr.state = "pending" THEN outcome ELSE pr.state,
             !.calls = pr.calls + 1]

\* entry.reject(error): the promise keeps the error of its first settlement
Reject(pr, error) ==
  [Settle(pr, "rejected") EXCEPT !.error = IF pr.state = "pending" THEN error ELSE @]

\* the errors that reach fail
QueueTimeout == "Request timed out in queue"
NoDecodeWorker == "No decode worker available"
TransferFailed == "KV cache transfer failed"
PrefillFailed == "prefill endpoint returned"
DecodeFailed == "decode endpoint returned"

fail(w, requestId, error) ==
  LET w1 == emit(recordFailure(w), "request_failed", requestId)
  IN IF requestId \in w1.sched.inflight
     THEN [w1 EXCEPT !.requests[requestId].phase = "failed",
                     !.sched.inflight = @ \ {requestId},
                     !.promises[requestId] = Reject(@, error)]
     ELSE w1

\* ------------------------------------------------------------------------
\* KVCacheTransferManager
\* ------------------------------------------------------------------------
\* executeTransfer up to its await of doTransfer
executeTransfer(km, job) ==
  [km EXCEPT !.activeTransfers = @ + 1,
             !.executing = @ \cup {job}]

\* a mutant of transfer: the slot test is off by one
transferOffByOne(km, job) ==
  LET km1 == [km EXCEPT !.arrivals = Append(@, [job |-> job, queued |-> FALSE])]
  IN IF km1.activeTransfers <= km1.maxConcurrent
     THEN executeTransfer(km1, job)
     ELSE [km EXCEPT !.arrivals = Append(@, [job |-> job, queued |-> TRUE]),
                     !.pending = Append(@, job)]

\* transfer(req) up to its first await; arrivals records the call and the
\* branch it took
transfer(km, job) ==
  IF km.activeTransfers < km.maxConcurrent
  THEN executeTransfer(
         [km EXCEPT !.arrivals = Append(@, [job |-> job, queued |-> FALSE])],
         job)
  ELSE [km EXCEPT !.arrivals = Append(@, [job |-> job, queued |-> TRUE]),
                  !.pending = Append(@, job)]

\* a mutant of drainPending: pending.pop() instead of pending.shift()
RECURSIVE drainPendingLifo(_)
drainPendingLifo(km) ==
  IF Len(km.pending) > 0 /\ km.activeTransfers < km.maxConcurrent
  THEN drainPendingLifo(
         executeTransfer(
           [km EXCEPT !.pending = SubSeq(@, 1, Len(@) - 1)],
           km.pending[Len(km.pending)]))
  ELSE km

RECURSIVE drainPending(_)
drainPending(km) ==
  IF Len(km.pending) > 0 /\ km.activeTransfers < km.maxConcurrent
  THEN drainPending(executeTransfer([km EXCEPT !.pending = Tail(@)],
                                    Head(km.pending)))
  ELSE km

\* what a fetch of doTransfer can come to: a 2xx response with a JSON body, a
\* response that is not ok, a network error, the abort at the deadline
\* (timeoutMs), a body that is not JSON
FetchOutcomes == {"ok", "not_ok", "network_error", "aborted", "bad_body"}

\* doTransfer returns (TRUE) when export and import both succeed; it throws
\* (FALSE) on every other outcome, the import not being tried after a failed
\* export
doTransfer(exportRes, importRes) == exportRes = "ok" /\ importRes = "ok"

\* how the promise of executeTransfer settles: the try block returns the
\* success result, the catch block returns the failure result with the
\* error's text
executeTransferSettles(job, ok) ==
  [job |-> job, promise |-> "resolved", success |-> ok,
   error |-> IF ok THEN Undefined ELSE "message"]

\* a mutant of executeTransferFinally: the slot is released on success only
executeTransferFinallyOnSuccess(km, job, ok) ==
  IF ok
  THEN drainPending([km EXCEPT !.activeTransfers = @ - 1,
                               !.executing = @ \ {job},
                               !.results = @ \cup {executeTransferSettles(job, ok)}])
  ELSE [km EXCEPT !.executing = @ \ {job},
                  !.results = @ \cup {executeTransferSettles(job, ok)}]

\* doTransfer settled (ok: it returned, ~ok: it threw): the result object
\* that executeTransfer returns and its finally block
executeTransferFinally(km, job, ok) ==
  drainPending([km EXCEPT !.activeTransfers = @ - 1,
                          !.executing = @ \ {job},
                          !.results = @ \cup {executeTransferSettles(job, ok)}])

\* ------------------------------------------------------------------------
\* PDScheduler.runPipeline, cut at its three awaits
\* ------------------------------------------------------------------------
NoFrame(at) ==
  [at |-> at, prefillStart |-> 0, prefillLatencyMs |-> 0, decodeStart |-> 0]

\* the call has returned: its locals are gone
PipelineEnd(w, rid) == [w EXCEPT !.pc[rid] = NoFrame("done")]

\* from the call to the await of client.prefill
runPipelineStart(w, rid, prefillWorkerId) ==
  LET w1 == [w EXCEPT !.requests[rid].phase = "prefilling",
                      !.requests[rid].prefillWorkerId = prefillWorkerId,
                      !.sched.activePrefills = @ + 1,
                      !.pool = incrementActive(@, prefillWorkerId)]
      w2 == emit(w1, "prefill_started", rid)
  IN [w2 EXCEPT !.pc[rid] = [at |-> "prefill", prefillStart |-> w.now,
                             prefillLatencyMs |-> 0, decodeStart |-> 0]]

\* a mutant of runPipelineAfterPrefill: transfer_started is emitted before
\* prefill_completed
runPipelineAfterPrefillEventsSwapped(w, rid) ==
  LET pw == w.requests[rid].prefillWorkerId
      w1 == [w EXCEPT !.pool = decrementActive(@, pw),
                      !.sched.activePrefills = @ - 1,
                      !.pc[rid].prefillLatencyMs = w.now - w.pc[rid].prefillStart]
      w3 == [w1 EXCEPT !.requests[rid].phase = "transferring"]
      sel == select(w3.pool, "decode", w3.config.strategy)
      w4 == [w3 EXCEPT !.pool = sel.pool]
  IN IF sel.worker = NoWorker
     THEN PipelineEnd(fail(emit(w4, "prefill_completed", rid), rid, NoDecodeWorker), rid)
     ELSE LET w5 == emit(emit([w4 EXCEPT !.requests[rid].decodeWorkerId = sel.worker],
                              "transfer_started", rid),
                         "prefill_completed", rid)
          IN [w5 EXCEPT !.kvManager = transfer(@, rid),
                        !.pc[rid].at = "transfer"]

\* a mutant of runPipelineAfterPrefill: without a decode worker the transfer
\* is announced and submitted all the same before the request is failed
runPipelineAfterPrefillTransfersAnyway(w, rid) ==
  LET pw == w.requests[rid].prefillWorkerId
      w1 == [w EXCEPT !.pool = decrementActive(@, pw),
                      !.sched.activePrefills = @ - 1,
                      !.pc[rid].prefillLatencyMs = w.now - w.pc[rid].prefillStart]
      w2 == emit(w1, "prefill_completed", rid)
      w3 == [w2 EXCEPT !.requests[rid].phase = "transferring"]
      sel == select(w3.pool, "decode", w3.config.strategy)
      w4 == [w3 EXCEPT !.pool = sel.pool]
      w5 == emit([w4 EXCEPT !.requests[rid].decodeWorkerId = sel.worker],
                 "transfer_started", rid)
  IN IF sel.worker = NoWorker
     THEN PipelineEnd(fail(w5, rid, NoDecodeWorker), rid)
     ELSE [w5 EXCEPT !.kvManager = transfer(@, rid),
                     !.pc[rid].at = "transfer"]

\* client.prefill returned: up to the await of kvManager.transfer
runPipelineAfterPrefill(w, rid) ==
  LET pw == w.requests[rid].prefillWorkerId
      w1 == [w EXCEPT !.pool = decrementActive(@, pw),
                      !.sched.activePrefills = @ - 1,
                      !.pc[rid].prefillLatencyMs = w.now - w.pc[rid].prefillStart]
      w2 == emit(w1, "prefill_completed", rid)
      w3 == [w2 EXCEPT !.requests[rid].phase = "transferring"]
      sel == select(w3.pool, "decode", w3.config.strategy)
      w4 == [w3 EXCEPT !.pool = sel.pool]
  IN IF sel.worker = NoWorker
     THEN PipelineEnd(fail(w4, rid, NoDecodeWorker), rid)
     ELSE LET w5 == emit([w4 EXCEPT !.requests[rid].decodeWorkerId = sel.worker],
                         "transfer_started", rid)
          IN [w5 EXCEPT !.kvManager = transfer(@, rid),
                        !.pc[rid].at = "transfer"]

\* client.prefill threw: the catch block
runPipelineCatch(w, rid, err) == PipelineEnd(fail(w, rid, err), rid)

\* a mutant of runPipelineAfterTransfer: a failed transfer is reported through
\* fail but the pipeline still goes on to decode
runPipelineAfterTransferNoThrow(w, rid, ok) ==
  LET w1 == [w EXCEPT !.kvManager = executeTransferFinally(@, rid, ok)]
      dw == w.requests[rid].decodeWorkerId
      w2 == emit(w1, "transfer_completed", rid)
      w3 == [w2 EXCEPT !.requests[rid].phase = "decoding",
                       !.sched.activeDecodes = @ + 1,
                       !.pool = incrementActive(@, dw)]
      w4 == emit(w3, "decode_started", rid)
      w5 == IF ok THEN w4 ELSE fail(w4, rid, TransferFailed)
  IN [w5 EXCEPT !.pc[rid].at = "decode",
                !.pc[rid].decodeStart = w.now]

\* kvManager.transfer settled with success = ok: the finally block of
\* executeTransfer, then runPipeline up to the await of client.decode
runPipelineAfterTransfer(w, rid, ok) ==
  LET w1 == [w EXCEPT !.kvManager = executeTransferFinally(@, rid, ok)]
      dw == w.requests[rid].decodeWorkerId
  IN IF ~ok THEN runPipelineCatch(w1, rid, TransferFailed)
     ELSE LET w2 == emit(w1, "transfer_completed", rid)
              w3 == [w2 EXCEPT !.requests[rid].phase = "decoding",
                               !.sched.activeDecodes = @ + 1,
                               !.pool = incrementActive(@, dw)]
              w4 == emit(w3, "decode_started", rid)
          IN [w4 EXCEPT !.pc[rid].at = "decode",
                        !.pc[rid].decodeStart = w.now]

\* client.decode returned: to the end of the try block
runPipelineAfterDecode(w, rid) ==
  LET dw == w.requests[rid].decodeWorkerId
      totalLatencyMs == w.now - w.pc[rid].prefillStart
      decodeLatencyMs == w.now - w.pc[rid].decodeStart
      w1 == [w EXCEPT !.pool = decrementActive(@, dw),
                      !.sched.activeDecodes = @ - 1]
      w2 == emit(emit(w1, "decode_completed", rid), "request_completed", rid)
      w3 == recordCompletion(w2, totalLatencyMs, w.pc[rid].prefillLatencyMs,
                             decodeLatencyMs)
      w4 == [w3 EXCEPT !.requests[rid].phase = "completed"]
      w5 == IF rid \in w4.sched.inflight
            THEN [w4 EXCEPT !.sched.inflight = @ \ {rid},
                            !.promises[rid] = Settle(@, "resolved")]
            ELSE w4
  IN PipelineEnd(w5, rid)

\* ------------------------------------------------------------------------
\* PDScheduler.dispatch
\* ------------------------------------------------------------------------
\* the comparator of queue.sort
Compare(w, a, b) ==
  LET pd == PRIORITY_ORDER(w.requests[a].priority)
            - PRIORITY_ORDER(w.requests[b].priority)
  IN IF pd # 0 THEN pd ELSE w.requests[a].createdAt - w.requests[b].createdAt

\* Array.prototype.sort is stable: x goes behind every element it does not
\* precede.
RECURSIVE InsertSorted(_, _, _)
InsertSorted(w, s, x) ==
  IF s = <<>> THEN <<x>>
  ELSE IF Compare(w, x, Head(s)) < 0 THEN <<x>> \o s
       ELSE <<Head(s)>> \o InsertSorted(w, Tail(s), x)

RECURSIVE SortQueue(_, _)
SortQueue(w, q) ==
  IF q = <<>> THEN <<>>
  ELSE InsertSorted(w, SortQueue(w, SubSeq(q, 1, Len(q) - 1)), q[Len(q)])

\* req.timeoutMs && now - req.createdAt > req.timeoutMs
TimedOut(w, rid) ==
  /\ w.requests[rid].timeoutMs # 0
  /\ w.now - w.requests[rid].createdAt > w.requests[rid].timeoutMs

RECURSIVE FailAll(_, _)
FailAll(w, rids) ==
  IF rids = <<>> THEN w
  ELSE FailAll(fail(w, Head(rids), QueueTimeout), Tail(rids))

\* a mutant of SweepTimeouts: the expired entry is failed but not spliced out
SweepTimeoutsNoSplice(w) ==
  LET q == w.sched.queue
      expired == {q[i] : i \in {j \in 1..Len(q) : TimedOut(w, q[j])}}
  IN FailAll(w, ReverseSeq(FilterSeq(q, expired)))

\* the sweep runs from the tail of the sorted queue to its head
SweepTimeouts(w) ==
  LET q == w.sched.queue
      expired == {q[i] : i \in {j \in 1..Len(q) : TimedOut(w, q[j])}}
      w1 == [w EXCEPT !.sched.queue = FilterSeq(q, SeqSet(q) \ expired)]
  IN FailAll(w1, ReverseSeq(FilterSeq(q, expired)))

\* a mutant of dispatch: queue[0] is launched but not shifted out
dispatchNoShift(w) ==
  IF Len(w.sched.queue) = 0 THEN w
  ELSE LET w1 == [w EXCEPT !.sched.queue = SortQueue(w, @)]
           w2 == SweepTimeouts(w1)
           sel == select(w2.pool, "prefill", w2.config.strategy)
           w3 == [w2 EXCEPT !.pool = sel.pool]
       IN IF sel.worker = NoWorker THEN w3
          ELSE IF Len(w3.sched.queue) = 0 THEN w3
          ELSE runPipelineStart(w3, Head(w3.sched.queue), sel.worker)

\* a mutant of dispatch: requests are launched for as long as a prefill
\* worker is found
RECURSIVE LaunchAll(_)
LaunchAll(w) ==
  LET sel == select(w.pool, "prefill", w.config.strategy)
      w3 == [w EXCEPT !.pool = sel.pool]
  IN IF sel.worker = NoWorker \/ Len(w3.sched.queue) = 0 THEN w3
     ELSE LaunchAll(runPipelineStart([w3 EXCEPT !.sched.queue = Tail(@)],
                                     Head(w3.sched.queue), sel.worker))

dispatchDrains(w) ==
  IF Len(w.sched.queue) = 0 THEN w
  ELSE LaunchAll(SweepTimeouts([w EXCEPT !.sched.queue = SortQueue(w, @)]))

dispatch(w) ==
  IF Len(w.sched.queue) = 0 THEN w
  ELSE LET w1 == [w EXCEPT !.sched.queue = SortQueue(w, @)]
           w2 == SweepTimeouts(w1)
           sel == select(w2.pool, "prefill", w2.config.strategy)
           w3 == [w2 EXCEPT !.pool = sel.pool]
       IN IF sel.worker = NoWorker THEN w3
          ELSE IF Len(w3.sched.queue) = 0 THEN w3
          ELSE runPipelineStart(
                 [w3 EXCEPT !.sched.queue = Tail(@)],
                 Head(w3.sched.queue), sel.worker)

\* ------------------------------------------------------------------------
\* PDScheduler.submit, start, stop
\* ------------------------------------------------------------------------
\* a mutant of QueueFull: > instead of >=
QueueFullOffByOne(w) == Len(w.sched.queue) > w.config.maxQueueSize

\* this.queue.length >= this.config.maxQueueSize
QueueFull(w) == Len(w.sched.queue) >= w.config.maxQueueSize

submit(w, priority, timeoutMs) ==
  IF QueueFull(w)
  THEN [w EXCEPT !.lastSubmit = "rejected"]
  ELSE LET rid == w.idCounter + 1
           request == [priority |-> IF priority = Undefined THEN "normal"
                                    ELSE priority,
                       phase |-> "queued",
                       createdAt |-> w.now,
                       timeoutMs |-> IF timeoutMs = NoNumber
                                     THEN DefaultRequestTimeoutMs
                                     ELSE timeoutMs,
                       prefillWorkerId |-> Undefined,
                       decodeWorkerId |-> Undefined]
           w1 == [w EXCEPT !.idCounter = rid,
                           !.requests = Append(@, request),
                           !.promises = Append(@, [state |-> "pending", calls |-> 0,
                                               error |-> Undefined]),
                           !.pc = Append(@, NoFrame("queue")),
                           !.sched.queue = Append(@, rid),
                           !.sched.inflight = @ \cup {rid},
                           !.lastSubmit = "accepted"]
       IN emit(w1, "request_queued", rid)

\* HealthMonitor.start: timer is the handle the monitor holds, intervals the
\* number of interval timers that are set and not cleared
HealthMonitorStart(h) ==
  IF h.timer THEN h
  ELSE [h EXCEPT !.timer = TRUE, !.intervals = @ + 1]

\* HealthMonitor.stop
HealthMonitorStop(h) ==
  IF h.timer THEN [h EXCEPT !.timer = FALSE, !.intervals = @ - 1]
  ELSE h

\* a mutant of start: the running flag is not looked at
startAlways(w) ==
  [w EXCEPT !.sched.running = TRUE,
            !.sched.lifecycle = "start",
            !.health = HealthMonitorStart(@),
            !.sched.dispatchTimer = TRUE,
            !.sched.intervals = @ + 1]

\* dispatchTimer is the handle the scheduler holds, intervals the number of
\* dispatch interval timers that are set and not cleared, lifecycle the
\* latest of start and stop to have been called
start(w) ==
  IF w.sched.running THEN [w EXCEPT !.sched.lifecycle = "start"]
  ELSE [w EXCEPT !.sched.running = TRUE,
                 !.sched.lifecycle = "start",
                 !.health = HealthMonitorStart(@),
                 !.sched.dispatchTimer = TRUE,
                 !.sched.intervals = @ + 1]

\* a mutant of stop: the dispatch timer is left running
stopKeepsDispatching(w) ==
  [w EXCEPT !.sched.running = FALSE,
            !.sched.lifecycle = "stop",
            !.health = HealthMonitorStop(@)]

stop(w) ==
  LET w1 == [w EXCEPT !.sched.running = FALSE,
                      !.sched.lifecycle = "stop",
                      !.health = HealthMonitorStop(@)]
  IN IF w1.sched.dispatchTimer
     THEN [w1 EXCEPT !.sched.dispatchTimer = FALSE,
                     !.sched.intervals = @ - 1]
     ELSE w1

\* ------------------------------------------------------------------------
\* Construction
\* ------------------------------------------------------------------------
RECURSIVE RegisterAll(_, _, _)
RegisterAll(p, seeds, at) ==
  IF seeds = <<>> THEN p
  ELSE RegisterAll(register(p, Head(seeds), at), Tail(seeds), at)

\* new PDScheduler(config) at time 0
PDScheduler(cfg) ==
  [now |-> 0,
   config |-> [maxQueueSize |-> cfg.maxQueueSize, strategy |-> cfg.strategy],
   idCounter |-> 0,
   pool |-> RegisterAll([workers |-> <<>>,
                         roundRobinCounters |-> [r \in Roles |-> 0],
                         lastCall |-> NoCall,
                         selections |-> <<>>],
                        cfg.workers, 0),
   kvManager |-> [maxConcurrent |-> cfg.kvMaxConcurrent,
                  activeTransfers |-> 0, pending |-> <<>>,
                  executing |-> {}, arrivals |-> <<>>, results |-> {}],
   health |-> [counters |-> [completed |-> 0, failed |-> 0],
               latency |-> [total |-> <<>>, prefill |-> <<>>, decode |-> <<>>],
               recorded |-> [total |-> <<>>, prefill |-> <<>>, decode |-> <<>>],
               eventLog |-> <<>>,
               history |-> <<>>,
               timer |-> FALSE,
               intervals |-> 0,
               workerTimeoutMs |-> cfg.workerTimeoutMs,
               check |-> NoCheck],
   sched |-> [queue |-> <<>>, inflight |-> {}, activePrefills |-> 0,
              activeDecodes |-> 0, dispatchTimer |-> FALSE, intervals |-> 0,
              running |-> FALSE, lifecycle |-> "none"],
   requests |-> <<>>,
   promises |-> <<>>,
   pc |-> <<>>,
   lastSubmit |-> "none"]

StartsAs(w) ==
  /\ now = w.now
  /\ config = w.config
  /\ idCounter = w.idCounter
  /\ pool = w.pool
  /\ kvManager = w.kvManager
  /\ health = w.health
  /\ sched = w.sched
  /\ requests = w.requests
  /\ promises = w.promises
  /\ pc = w.pc
  /\ lastSubmit = w.lastSubmit

\* ------------------------------------------------------------------------
\* Configurations
\* ------------------------------------------------------------------------
PrefillSeed(maxConcurrency) ==
  [id |-> "p1", role |-> "prefill", maxConcurrency |-> maxConcurrency]

DecodeSeed(maxConcurrency) ==
  [id |-> "d1", role |-> "decode", maxConcurrency |-> maxConcurrency]

\* one prefill and one decode worker, each taking one request at a time
BothRoles == <<PrefillSeed(1), DecodeSeed(1)>>

\* no prefill worker is registered
DecodeOnly == <<DecodeSeed(1)>>

Config(maxQueueSize, kvMaxConcurrent, workers) ==
  [maxQueueSize |-> maxQueueSize, strategy |-> "least-loaded",
   kvMaxConcurrent |-> kvMaxConcurrent, workers |-> workers,
   workerTimeoutMs |-> WorkerTimeoutMs]

\* no decode worker is registered
PrefillOnly == <<PrefillSeed(1)>>

Configs ==
  {Config(q, 1, BothRoles) : q \in {0, MaxRequests - 1, MaxRequests}}
    \cup {Config(MaxRequests, 1, DecodeOnly), Config(MaxRequests, 1, PrefillOnly)}

Init == \E cfg \in Configs : StartsAs(PDScheduler(cfg))

\* ------------------------------------------------------------------------
\* Actions of the scheduler
\* ------------------------------------------------------------------------
RequestIds == 1..idCounter

\* time passes
Tick == now < MaxTime /\ Commit([World EXCEPT !.now = @ + 1])

Start ==
  /\ sched.running \in BOOLEAN
  /\ Commit(start(World))

Stop ==
  /\ sched.running \in BOOLEAN
  /\ Commit(stop(World))

SubmitInputs == Priorities \X {NoNumber, 0}

Submit ==
  \E in \in SubmitInputs :
    /\ idCounter < MaxRequests \/ QueueFull(World)
    /\ Commit(submit(World, in[1], in[2]))

\* a firing of the dispatch interval timer
Dispatch ==
  /\ sched.intervals > 0
  /\ Len(sched.queue) > 0
  /\ Commit(dispatch(World))

PrefillOk ==
  \E rid \in RequestIds :
    pc[rid].at = "prefill" /\ Commit(runPipelineAfterPrefill(World, rid))

PrefillThrows ==
  \E rid \in RequestIds :
    pc[rid].at = "prefill" /\ Commit(runPipelineCatch(World, rid, PrefillFailed))

TransferOk ==
  \E rid \in RequestIds :
    /\ pc[rid].at = "transfer"
    /\ rid \in kvManager.executing
    /\ Commit(runPipelineAfterTransfer(World, rid, TRUE))

TransferFails ==
  \E rid \in RequestIds :
    /\ pc[rid].at = "transfer"
    /\ rid \in kvManager.executing
    /\ Commit(runPipelineAfterTransfer(World, rid, FALSE))

DecodeOk ==
  \E rid \in RequestIds :
    pc[rid].at = "decode" /\ Commit(runPipelineAfterDecode(World, rid))

DecodeThrows ==
  \E rid \in RequestIds :
    pc[rid].at = "decode" /\ Commit(runPipelineCatch(World, rid, DecodeFailed))

Next ==
  \/ Tick
  \/ Start
  \/ Submit
  \/ Dispatch
  \/ PrefillOk
  \/ PrefillThrows
  \/ TransferOk
  \/ TransferFails
  \/ DecodeOk
  \/ DecodeThrows

Spec == Init /\ [][Next]_vars

\* ------------------------------------------------------------------------
\* The queue on its own: submissions and dispatch ticks while every
\* client.prefill call is still outstanding. The prefill worker is seeded
\* without maxConcurrency, so it never runs out of capacity.
\* ------------------------------------------------------------------------
QueueConfigs == {Config(MaxQueued, 1, <<PrefillSeed(NoNumber), DecodeSeed(1)>>)}

QueueInit == \E cfg \in QueueConfigs : StartsAs(PDScheduler(cfg))

SubmitQueued ==
  \E in \in SubmitInputs :
    /\ idCounter < MaxQueued
    /\ Commit(submit(World, in[1], in[2]))

QueueNext ==
  \/ Tick
  \/ Start
  \/ SubmitQueued
  \/ Dispatch

QueueSpec == QueueInit /\ [][QueueNext]_vars

\* ------------------------------------------------------------------------
\* The WorkerPool on its own: every public method, called in any order with
\* any argument, on workers w1 and w2 of either role. The clock stands still.
\* ------------------------------------------------------------------------
PoolIds == {"w1", "w2"}

Statuses == {"idle", "busy", "draining", "offline"}

Strategies == {"round-robin", "least-loaded", "latency-aware", "other"}

\* w1 registers in either role, w2 as a prefill worker; each takes up to
\* MaxActive requests
PoolSeeds ==
  {[id |-> "w1", role |-> r, maxConcurrency |-> MaxActive] : r \in Roles}
    \cup {[id |-> "w2", role |-> "prefill", maxConcurrency |-> MaxActive]}

\* updateMetrics with one field given, and with all three as a health probe
\* gives them
PoolMetrics ==
  {[gpuUtilization |-> g, activeRequests |-> NoNumber, status |-> Undefined] :
     g \in {0, 1}}
    \cup {[gpuUtilization |-> NoNumber, activeRequests |-> a, status |-> Undefined] :
             a \in 0..MaxActive}
    \cup {[gpuUtilization |-> NoNumber, activeRequests |-> NoNumber, status |-> st] :
             st \in Statuses}
    \cup {[gpuUtilization |-> 1, activeRequests |-> a,
            status |-> IF a >= MaxActive THEN "busy" ELSE "idle"] :
             a \in 0..MaxActive}

PoolInit == StartsAs(PDScheduler(Config(MaxRequests, 1, <<>>)))

PoolFrame ==
  UNCHANGED <<now, config, idCounter, kvManager, health, sched, requests,
              promises, pc, lastSubmit>>

Called(p, op, target) ==
  [p EXCEPT !.lastCall = Call(op, target, "", NoNumber, {})]

PoolRegister(seed) ==
  /\ pool' = Called(register(pool, seed, now), "register", seed.id)
  /\ PoolFrame

PoolRemove(id) ==
  /\ HasWorker(pool.workers, id)
  /\ pool' = Called(remove(pool, id), "remove", id)
  /\ PoolFrame

PoolIncrement(id) ==
  /\ HasWorker(pool.workers, id)
  /\ GetWorker(pool.workers, id).activeRequests < MaxActive
  /\ pool' = Called(incrementActive(pool, id), "incrementActive", id)
  /\ PoolFrame

PoolDecrement(id) ==
  /\ HasWorker(pool.workers, id)
  /\ pool' = Called(decrementActive(pool, id), "decrementActive", id)
  /\ PoolFrame

PoolUpdateMetrics(id, metrics) ==
  /\ HasWorker(pool.workers, id)
  /\ pool' = Called(updateMetrics(pool, id, metrics, now), "updateMetrics", id)
  /\ PoolFrame

PoolMarkOffline(id) ==
  /\ HasWorker(pool.workers, id)
  /\ pool' = Called(markOffline(pool, id), "markOffline", id)
  /\ PoolFrame

PoolSelect(role, strategy) ==
  /\ strategy = "round-robin" => pool.roundRobinCounters[role] < MaxRoundRobin
  /\ LET sel == select(pool, role, strategy)
     IN pool' = [sel.pool EXCEPT !.lastCall =
                   Call("select", role, strategy, NoNumber,
                        IF sel.worker = NoWorker THEN {} ELSE {sel.worker})]
  /\ PoolFrame

PoolNext ==
  \/ \E seed \in PoolSeeds : PoolRegister(seed)
  \/ \E id \in PoolIds : PoolRemove(id)
  \/ \E id \in PoolIds : PoolIncrement(id)
  \/ \E id \in PoolIds : PoolDecrement(id)
  \/ \E id \in PoolIds, metrics \in PoolMetrics : PoolUpdateMetrics(id, metrics)
  \/ \E id \in PoolIds : PoolMarkOffline(id)
  \/ \E role \in Roles, strategy \in Strategies : PoolSelect(role, strategy)

PoolSpec == PoolInit /\ [][PoolNext]_vars

\* ------------------------------------------------------------------------
\* Round-robin selection: three prefill workers and one decode worker, going
\* offline and coming back between the calls of select(role, "round-robin").
\* selections records every call: the role, the candidates it found and the
\* worker it returned.
\* ------------------------------------------------------------------------
RoundRobinWorkers ==
  <<[id |-> "p1", role |-> "prefill", maxConcurrency |-> 1],
    [id |-> "p2", role |-> "prefill", maxConcurrency |-> 1],
    [id |-> "p3", role |-> "prefill", maxConcurrency |-> 1],
    [id |-> "d1", role |-> "decode", maxConcurrency |-> 1]>>

RoundRobinIds == {RoundRobinWorkers[i].id : i \in DOMAIN RoundRobinWorkers}

RoundRobinInit ==
  StartsAs(PDScheduler([Config(MaxRequests, 1, RoundRobinWorkers)
                          EXCEPT !.strategy = "round-robin"]))

RoundRobinSelect(role) ==
  /\ Len(pool.selections) < MaxSelections
  /\ LET cands == available(pool.workers, role)
         sel == select(pool, role, config.strategy)
     IN pool' = [sel.pool EXCEPT
                   !.lastCall = Call("select", role, config.strategy, NoNumber,
                                     IF sel.worker = NoWorker THEN {}
                                     ELSE {sel.worker}),
                   !.selections =
                      Append(@, [role |-> role,
                                 cands |-> [i \in 1..Len(cands) |-> cands[i].id],
                                 ret |-> sel.worker])]
  /\ PoolFrame

RoundRobinGoesOffline(id) ==
  /\ GetWorker(pool.workers, id).status # "offline"
  /\ pool' = Called(markOffline(pool, id), "markOffline", id)
  /\ PoolFrame

RoundRobinComesBack(id) ==
  /\ GetWorker(pool.workers, id).status = "offline"
  /\ pool' = Called(updateMetrics(pool, id,
                                  [gpuUtilization |-> 0, activeRequests |-> 0,
                                   status |-> "idle"], now),
                    "updateMetrics", id)
  /\ PoolFrame

RoundRobinNext ==
  \/ \E role \in Roles : RoundRobinSelect(role)
  \/ \E id \in RoundRobinIds : RoundRobinGoesOffline(id)
  \/ \E id \in RoundRobinIds : RoundRobinComesBack(id)

RoundRobinSpec == RoundRobinInit /\ [][RoundRobinNext]_vars

\* ------------------------------------------------------------------------
\* The health monitor: the clock, health ticks with every probe result, and
\* direct calls of expireStaleWorkers, on one prefill and one decode worker.
\* One runHealthChecks call is under way at a time.
\* ------------------------------------------------------------------------
HealthInit == StartsAs(PDScheduler(Config(MaxRequests, 1, BothRoles)))

HealthResults ==
  {HealthResult(TRUE, g, a) : g \in {0, 1}, a \in {0, 1}}
    \cup {HealthResult(FALSE, 0, 0)}

HealthTickBegin ==
  /\ health.intervals > 0
  /\ ~health.check.running
  /\ health.check.ran < MaxHealthTicks
  /\ Commit(runHealthChecksStart(World))

Probed(id, result) ==
  /\ health.check.running
  /\ id \in health.check.probing
  /\ Commit(runHealthChecksProbed(World, id, result))

HealthTickEnd ==
  /\ health.check.running
  /\ health.check.probing = {}
  /\ Commit(runHealthChecksEnd(World))

ExpireStale(timeoutMs) ==
  LET r == expireStaleWorkers(pool, timeoutMs, now)
  IN /\ pool' = [r.pool EXCEPT !.lastCall =
                   Call("expireStaleWorkers", "", "", timeoutMs, SeqSet(r.expired))]
     /\ PoolFrame

HealthNext ==
  \/ Tick
  \/ Start
  \/ HealthTickBegin
  \/ \E id \in {"p1", "d1"}, result \in HealthResults : Probed(id, result)
  \/ HealthTickEnd
  \/ \E timeoutMs \in 0..WorkerTimeoutMs : ExpireStale(timeoutMs)

HealthSpec == HealthInit /\ [][HealthNext]_vars

\* ------------------------------------------------------------------------
\* The transfer manager on its own: transfer() calls and settlements of
\* doTransfer, for every maxConcurrent from 0 to MaxKvConcurrent
\* ------------------------------------------------------------------------
KvConfigs == {Config(MaxRequests, k, BothRoles) : k \in 0..MaxKvConcurrent}

KvInit == \E cfg \in KvConfigs : StartsAs(PDScheduler(cfg))

KvFrame ==
  UNCHANGED <<now, config, idCounter, pool, health, sched, requests, promises,
              pc, lastSubmit>>

KvTransfer ==
  /\ Len(kvManager.arrivals) < MaxKvJobs
  /\ kvManager' = transfer(kvManager, Len(kvManager.arrivals) + 1)
  /\ KvFrame

KvSucceeds ==
  \E job \in kvManager.executing :
    /\ doTransfer("ok", "ok")
    /\ kvManager' = executeTransferFinally(kvManager, job, TRUE)
    /\ KvFrame

KvFails ==
  \E job \in kvManager.executing, exportRes \in FetchOutcomes,
     importRes \in FetchOutcomes :
    /\ ~doTransfer(exportRes, importRes)
    /\ kvManager' = executeTransferFinally(kvManager, job, FALSE)
    /\ KvFrame

KvNext ==
  \/ KvTransfer
  \/ KvSucceeds
  \/ KvFails

KvSpec == KvInit /\ [][KvNext]_vars

\* ------------------------------------------------------------------------
\* The scheduler under fairness: the timers keep firing, the clock keeps
\* running, and every client call and every doTransfer returns or throws.
\* Requests are submitted early enough for the clock of the model to pass
\* their queue timeout.
\* ------------------------------------------------------------------------
LiveConfigs ==
  {Config(MaxLiveRequests, k, ws) : k \in {0, 1}, ws \in {BothRoles, DecodeOnly}}

LiveInit == \E cfg \in LiveConfigs : StartsAs(PDScheduler(cfg))

SubmitEarly ==
  \E in \in SubmitInputs :
    /\ idCounter < MaxLiveRequests
    /\ now + DefaultRequestTimeoutMs < MaxTime
    /\ Commit(submit(World, in[1], in[2]))

LiveNext ==
  \/ Tick
  \/ Start
  \/ SubmitEarly
  \/ Dispatch
  \/ PrefillOk
  \/ PrefillThrows
  \/ TransferOk
  \/ TransferFails
  \/ DecodeOk
  \/ DecodeThrows

LiveSpec ==
  /\ LiveInit
  /\ [][LiveNext]_vars
  /\ WF_vars(Tick)
  /\ WF_vars(Start)
  /\ WF_vars(Dispatch)
  /\ WF_vars(PrefillOk \/ PrefillThrows)
  /\ WF_vars(TransferOk \/ TransferFails)
  /\ WF_vars(DecodeOk \/ DecodeThrows)

\* ------------------------------------------------------------------------
\* The scheduler started and stopped at will while requests are submitted
\* and run. The clock stands still, so no request times out in the queue;
\* every client call and every doTransfer returns or throws, while start,
\* stop, submit and the dispatch timer (which stop clears) are under no
\* obligation to happen.
\* ------------------------------------------------------------------------
StopConfigs == {Config(MaxRequests, 1, BothRoles)}

StopInit == \E cfg \in StopConfigs : StartsAs(PDScheduler(cfg))

\* submit({modelId, prompt}): priority and timeoutMs are left out
SubmitPlain ==
  /\ idCounter < MaxRequests \/ QueueFull(World)
  /\ Commit(submit(World, Undefined, NoNumber))

StopNext ==
  \/ Start
  \/ Stop
  \/ SubmitPlain
  \/ Dispatch
  \/ PrefillOk
  \/ PrefillThrows
  \/ TransferOk
  \/ TransferFails
  \/ DecodeOk
  \/ DecodeThrows

StopSpec ==
  /\ StopInit
  /\ [][StopNext]_vars
  /\ WF_vars(PrefillOk \/ PrefillThrows)
  /\ WF_vars(TransferOk \/ TransferFails)
  /\ WF_vars(DecodeOk \/ DecodeThrows)

\* ------------------------------------------------------------------------
\* The event log on its own: emit calls on a monitor whose log is empty or
\* two events short of its cap.
\* ------------------------------------------------------------------------
MaxEmits == 4

EmitKinds == {"request_queued", "prefill_started", "request_failed"}

\* the log after n emits of request_queued for the requests 1..n
Emitted(n) == [i \in 1..n |-> Event("request_queued", i)]

EventLogInit ==
  \E n \in {0, EVENT_LOG_CAP - 2} :
    StartsAs([PDScheduler(Config(MaxRequests, 1, BothRoles))
                EXCEPT !.health.eventLog = Emitted(n),
                       !.health.history = Emitted(n)])

\* the emit calls made since the start
EmitsMade ==
  LET n == Len(health.history)
  IN IF n >= EVENT_LOG_CAP - 2 THEN n - (EVENT_LOG_CAP - 2) ELSE n

Emit ==
  \E kind \in EmitKinds :
    /\ EmitsMade < MaxEmits
    /\ Commit(emit(World, kind, Len(health.history) + 1))

EventLogNext == Emit

EventLogSpec == EventLogInit /\ [][EventLogNext]_vars

\* ------------------------------------------------------------------------
\* The latency windows on their own: recordCompletion calls on a monitor
\* whose windows are empty or two samples short of their size.
\* ------------------------------------------------------------------------
MaxSamples == 4

\* totalMs, prefillMs, decodeMs of a completion
Latencies == {<<0, 0, 0>>, <<1, 0, 1>>, <<40, 1, 2>>}

\* a window after n pushes of 1
Recorded(n) == [i \in 1..n |-> 1]

LatencyInit ==
  \E n \in {0, WINDOW_SIZE - 2} :
    LET windows == [total |-> Recorded(n), prefill |-> Recorded(n),
                    decode |-> Recorded(n)]
    IN StartsAs([PDScheduler(Config(MaxRequests, 1, BothRoles))
                   EXCEPT !.health.latency = windows,
                          !.health.recorded = windows,
                          !.health.counters.completed = n])

\* the recordCompletion calls made since the start
SamplesMade ==
  LET n == Len(health.recorded.total)
  IN IF n >= WINDOW_SIZE - 2 THEN n - (WINDOW_SIZE - 2) ELSE n

RecordCompletion ==
  \E l \in Latencies :
    /\ SamplesMade < MaxSamples
    /\ Commit(recordCompletion(World, l[1], l[2], l[3]))

LatencyNext == RecordCompletion

LatencySpec == LatencyInit /\ [][LatencyNext]_vars

\* ------------------------------------------------------------------------
\* fail called for ids that are not in the in-flight table (ids never handed
\* out, and ids of requests that are already settled), while requests are
\* submitted and run
\* ------------------------------------------------------------------------
MaxFailures == 2

FailInit == StartsAs(PDScheduler(Config(MaxRequests, 1, BothRoles)))

FailUnknown ==
  \E id \in 1..(MaxRequests + 1) :
    /\ id \notin sched.inflight
    /\ health.counters.failed < MaxFailures
    /\ Commit(fail(World, id, QueueTimeout))

FailNext ==
  \/ Start
  \/ SubmitPlain
  \/ Dispatch
  \/ PrefillOk
  \/ PrefillThrows
  \/ TransferOk
  \/ TransferFails
  \/ DecodeOk
  \/ DecodeThrows
  \/ FailUnknown

FailSpec == FailInit /\ [][FailNext]_vars

\* ========================================================================
\* Properties
\* ========================================================================
EventCount(kind, id) ==
  Cardinality({i \in 1..Len(health.eventLog) :
                 health.eventLog[i] = Event(kind, id)})

TerminalPhases == {"completed", "failed"}

NonTerminalPhases == {"queued", "prefilling", "transferring", "decoding"}

\* C1: every accepted request has at most one terminal event in the stream,
\* request_completed or request_failed and never both nor one of them twice;
\* resolve/reject has been called exactly as often as a terminal event was
\* emitted, with the matching outcome; and a request that has left the
\* in-flight table, reached a terminal phase or whose pipeline has returned
\* has exactly one.
C1_ExactlyOneTerminalEvent ==
  \A rid \in RequestIds :
    LET c == EventCount("request_completed", rid)
        f == EventCount("request_failed", rid)
    IN /\ c + f <= 1
       /\ promises[rid].calls = c + f
       /\ promises[rid].state =
            (IF c = 1 THEN "resolved" ELSE IF f = 1 THEN "rejected" ELSE "pending")
       /\ (c + f = 1) <=> (rid \notin sched.inflight)
       /\ (c + f = 1) <=> (requests[rid].phase \in TerminalPhases)
       /\ pc[rid].at = "done" => c + f = 1

\* one request was resolved by its pipeline, another was rejected by the
\* queue-timeout sweep
C1_Witness ==
  \E a, b \in RequestIds :
    /\ promises[a].state = "resolved"
    /\ promises[b].state = "rejected"
    /\ pc[b].at = "queue"

\* C2 (as claimed): every accepted submit eventually settles, whatever its
\* timeoutMs and whatever kvTransfer.maxConcurrent, also while no prefill
\* worker is available.
C2_EverySubmitSettles ==
  \A rid \in 1..MaxLiveRequests :
    (idCounter >= rid) ~> (idCounter >= rid /\ promises[rid].state # "pending")

\* C3 (as claimed): every registered worker has 0 <= activeRequests <=
\* maxConcurrency.
C3_ActiveWithinCapacity ==
  \A i \in 1..Len(pool.workers) :
    /\ 0 <= pool.workers[i].activeRequests
    /\ pool.workers[i].activeRequests <= pool.workers[i].maxConcurrency

QueueIdsDistinct ==
  \A i, j \in 1..Len(sched.queue) : i # j => sched.queue[i] # sched.queue[j]

\* C4 (as claimed): the queued ids are distinct, no id is in the queue and in
\* the in-flight table at once, and a non-terminal request is in exactly one
\* of the two.
C4_QueueAndInflightDisjoint ==
  /\ QueueIdsDistinct
  /\ SeqSet(sched.queue) \cap sched.inflight = {}
  /\ \A rid \in RequestIds :
       requests[rid].phase \in NonTerminalPhases =>
         ((rid \in SeqSet(sched.queue)) # (rid \in sched.inflight))

\* C4 (amended): the queued ids are distinct and each of them is in the
\* in-flight table too; a request is in the in-flight table exactly while it
\* is not terminal, and in the queue exactly while its phase is queued.
C4_QueuedAreInflight ==
  /\ QueueIdsDistinct
  /\ SeqSet(sched.queue) \subseteq sched.inflight
  /\ \A rid \in RequestIds :
       /\ (rid \in sched.inflight) <=> (requests[rid].phase \in NonTerminalPhases)
       /\ (rid \in SeqSet(sched.queue)) <=> (requests[rid].phase = "queued")

\* one request waits in the queue while another is in its pipeline
C4_Witness ==
  \E a, b \in RequestIds :
    /\ a \in SeqSet(sched.queue)
    /\ b \in sched.inflight \ SeqSet(sched.queue)

\* C5: the number of executing transfers never exceeds maxConcurrent (the
\* counter being the number of executeTransfer calls that have not finished).
C5_ActiveWithinMaxConcurrent ==
  /\ kvManager.activeTransfers <= kvManager.maxConcurrent
  /\ kvManager.activeTransfers = Cardinality(kvManager.executing)

\* every slot is taken, a transfer waits and one has finished
C5_Witness ==
  /\ kvManager.maxConcurrent > 0
  /\ kvManager.activeTransfers = kvManager.maxConcurrent
  /\ Len(kvManager.pending) > 0
  /\ kvManager.results # {}

ArrivalIndex(job) ==
  CHOOSE k \in 1..Len(kvManager.arrivals) : kvManager.arrivals[k].job = job

\* C6: waiting transfers start in the order they were queued: whatever has
\* started (every call that is not waiting) was called before every waiting
\* transfer, the waiting ones are in call order, and while one waits no slot
\* is free, so that no later call can start ahead of it.
C6_PendingStartInOrder ==
  LET pend == kvManager.pending
      arr == kvManager.arrivals
  IN /\ \A i \in 1..Len(pend) : \A k \in 1..Len(arr) :
          arr[k].job \notin SeqSet(pend) => k < ArrivalIndex(pend[i])
     /\ \A i, j \in 1..Len(pend) :
          i < j => ArrivalIndex(pend[i]) < ArrivalIndex(pend[j])
     /\ Len(pend) > 0 => kvManager.activeTransfers >= kvManager.maxConcurrent

\* a transfer that had to wait is executing while a later one still waits
C6_Witness ==
  /\ Len(kvManager.pending) > 0
  /\ \E k \in 1..Len(kvManager.arrivals) :
       /\ kvManager.arrivals[k].queued
       /\ kvManager.arrivals[k].job \in kvManager.executing

\* a is ahead of b in (priority rank, createdAt) order, submission order
\* (the order of the request ids) deciding between equal keys
Precedes(a, b) ==
  LET ra == PRIORITY_ORDER(requests[a].priority)
      rb == PRIORITY_ORDER(requests[b].priority)
  IN \/ ra < rb
     \/ ra = rb /\ requests[a].createdAt < requests[b].createdAt
     \/ ra = rb /\ requests[a].createdAt = requests[b].createdAt /\ a < b

\* the request has outlived its queue timeout: now - createdAt > timeoutMs
Expired(rid) == now - requests[rid].createdAt > requests[rid].timeoutMs

\* C7 (as claimed): a request that a step launches (queued -> prefilling) is
\* not expired and precedes every other queued request that is not expired,
\* in (priority rank, createdAt) order with high < normal < low and
\* submission order between equal keys.
C7_DispatchOrder ==
  [][\A rid \in RequestIds :
       (requests[rid].phase = "queued" /\ requests'[rid].phase = "prefilling") =>
         /\ ~Expired(rid)
         /\ \A q \in SeqSet(sched.queue) \ {rid} :
              ~Expired(q) => Precedes(rid, q)]_vars

\* C8: the queue never holds more than maxQueueSize requests; with
\* maxQueueSize = 0 no submit is ever accepted; and a submit at queue length
\* >= maxQueueSize is rejected and changes nothing else.
C8_QueueFullRejects ==
  /\ [](/\ Len(sched.queue) <= config.maxQueueSize
        /\ config.maxQueueSize = 0 => (idCounter = 0 /\ lastSubmit # "accepted"))
  /\ [][(Submit /\ Len(sched.queue) >= config.maxQueueSize) =>
          /\ lastSubmit' = "rejected"
          /\ UNCHANGED <<now, config, idCounter, pool, kvManager, health, sched,
                         requests, promises, pc>>]_vars

\* a submit was rejected at a full queue of a size above 0
C8_Witness ==
  /\ lastSubmit = "rejected"
  /\ config.maxQueueSize > 0
  /\ Len(sched.queue) = config.maxQueueSize

\* C9 (as claimed): a dispatch tick removes every queued request with
\* now - createdAt > timeoutMs, for every timeoutMs including 0, and fails
\* it; no prefill is started for it.
C9_SweepFailsEveryExpired ==
  [][Dispatch =>
       \A rid \in SeqSet(sched.queue) :
         Expired(rid) =>
           /\ rid \notin SeqSet(sched.queue')
           /\ requests'[rid].phase = "failed"]_vars

PhaseEdges ==
  {<<"queued", "prefilling">>, <<"prefilling", "transferring">>,
   <<"transferring", "decoding">>, <<"decoding", "completed">>}
    \cup {<<p, "failed">> : p \in NonTerminalPhases}

\* C10: a request starts in phase queued, and every change of its phase is
\* one step along queued -> prefilling -> transferring -> decoding ->
\* completed or a step from a non-terminal phase to failed; completed and
\* failed are never left.
C10_PhaseMonotonic ==
  [][/\ \A rid \in RequestIds :
          \/ requests'[rid].phase = requests[rid].phase
          \/ <<requests[rid].phase, requests'[rid].phase>> \in PhaseEdges
     /\ \A rid \in (1..idCounter') \ RequestIds :
          requests'[rid].phase = "queued"]_vars

\* one request ran through every phase and another failed inside its pipeline
C10_Witness ==
  \E a, b \in RequestIds :
    /\ requests[a].phase = "completed"
    /\ requests[b].phase = "failed"
    /\ pc[b].at = "done"

\* the lifecycle events of a request, in phase order
LifecycleOrder ==
  <<"request_queued", "prefill_started", "prefill_completed", "transfer_started",
    "transfer_completed", "decode_started", "decode_completed", "request_completed">>

\* the kinds of the events of request rid, in the order of the event log
KindsOf(rid) ==
  LET sel == SelectSeq(health.eventLog, LAMBDA e : e.id = rid)
  IN [i \in 1..Len(sel) |-> sel[i].kind]

\* C11: the events of a request are, in the order of the event stream, an
\* initial part of request_queued, prefill_started, prefill_completed,
\* transfer_started, transfer_completed, decode_started, decode_completed,
\* request_completed, possibly followed by request_failed as the last event:
\* no event of a later phase comes before one of an earlier phase and none
\* is repeated.
C11_EventsInPhaseOrder ==
  \A rid \in RequestIds :
    LET k == KindsOf(rid)
        n == Len(k)
    IN /\ n >= 1
       /\ \A i \in 1..n :
            \/ i <= Len(LifecycleOrder) /\ k[i] = LifecycleOrder[i]
            \/ i = n /\ i > 1 /\ k[i] = "request_failed"

\* one request emitted all eight events and another failed after its transfer
\* had started
C11_Witness ==
  \E a, b \in RequestIds :
    /\ KindsOf(a) = LifecycleOrder
    /\ KindsOf(b) = SubSeq(LifecycleOrder, 1, 4) \o <<"request_failed">>

\* the worker that the latest WorkerPool call was about
Target == GetWorker(pool.workers, pool.lastCall.target)

\* C12 (as claimed): a worker that is offline stays offline unless the step
\* is a health probe's updateMetrics or a register of its id; incrementActive,
\* decrementActive, markOffline and select never move it out of offline.
C12_OfflineIsSticky ==
  [][\A id \in PoolIds :
       (/\ HasWorker(pool.workers, id)
        /\ GetWorker(pool.workers, id).status = "offline"
        /\ HasWorker(pool'.workers, id)
        /\ GetWorker(pool'.workers, id).status # "offline") =>
         (/\ pool'.lastCall.op \in {"updateMetrics", "register"}
          /\ pool'.lastCall.target = id)]_vars

RuntimeState(w) ==
  [status |-> w.status, gpuUtilization |-> w.gpuUtilization,
   activeRequests |-> w.activeRequests]

\* C13: register of an id that is present keeps the worker's status,
\* gpuUtilization and activeRequests, whatever they are; register of a new id
\* starts it at idle, 0, 0; and registering the same seed once more leaves
\* the runtime state as the first call left it.
C13_RegisterKeepsRuntimeState ==
  /\ [](\A seed \in PoolSeeds :
          LET once == register(pool, seed, now)
              twice == register(once, seed, now)
          IN RuntimeState(GetWorker(twice.workers, seed.id)) =
               RuntimeState(GetWorker(once.workers, seed.id)))
  /\ [][\A seed \in PoolSeeds :
          PoolRegister(seed) =>
            RuntimeState(GetWorker(pool'.workers, seed.id)) =
              (IF HasWorker(pool.workers, seed.id)
               THEN RuntimeState(GetWorker(pool.workers, seed.id))
               ELSE [status |-> "idle", gpuUtilization |-> 0,
                     activeRequests |-> 0])]_vars

\* a worker that is offline, loaded and has a utilisation was registered
\* again
C13_Witness ==
  /\ pool.lastCall.op = "register"
  /\ Target.status = "offline"
  /\ Target.activeRequests > 0
  /\ Target.gpuUtilization > 0

\* C14: available(role) holds exactly the registered workers of the role
\* whose status is idle or busy and whose activeRequests < maxConcurrency,
\* each once; no draining, offline or at-capacity worker is in it.
C14_AvailableIsExact ==
  \A role \in Roles :
    LET av == available(pool.workers, role)
    IN /\ SeqSet(av) =
            {w \in SeqSet(pool.workers) :
               /\ w.role = role
               /\ w.status = "idle" \/ w.status = "busy"
               /\ w.activeRequests < w.maxConcurrency}
       /\ Cardinality(SeqSet(av)) = Len(av)
       /\ \A i \in 1..Len(av) :
            /\ av[i].status \notin {"draining", "offline"}
            /\ av[i].activeRequests # av[i].maxConcurrency

\* select found one prefill worker available and another one not
C14_Witness ==
  /\ pool.lastCall.op = "select"
  /\ pool.lastCall.target = "prefill"
  /\ Len(available(pool.workers, "prefill")) = 1
  /\ Len(list(pool.workers, "prefill")) = 2

\* the first position of cands at which key is least
FirstLeast(cands, key(_)) ==
  CHOOSE i \in 1..Len(cands) :
    /\ \A j \in 1..Len(cands) : key(cands[i]) <= key(cands[j])
    /\ \A j \in 1..(i - 1) : key(cands[j]) > key(cands[i])

\* C15: select(role, strategy) returns nothing exactly when available(role)
\* is empty and a member of available(role) otherwise: for least-loaded the
\* first worker with the least activeRequests, for latency-aware the first
\* with the least gpuUtilization, for an unknown strategy the first
\* candidate.
C15_SelectReturnsBest ==
  pool.lastCall.op = "select" =>
    LET cands == available(pool.workers, pool.lastCall.target)
        ret == pool.lastCall.ret
        strategy == pool.lastCall.strategy
    IN /\ (ret = {}) <=> (Len(cands) = 0)
       /\ ret \subseteq {cands[i].id : i \in 1..Len(cands)}
       /\ Cardinality(ret) <= 1
       /\ (Len(cands) > 0 /\ strategy = "least-loaded") =>
            ret = {cands[FirstLeast(cands, LAMBDA w : w.activeRequests)].id}
       /\ (Len(cands) > 0 /\ strategy = "latency-aware") =>
            ret = {cands[FirstLeast(cands, LAMBDA w : w.gpuUtilization)].id}
       /\ (Len(cands) > 0 /\ strategy = "other") => ret = {cands[1].id}

\* least-loaded chose the second of two candidates, the less loaded one
C15_Witness ==
  /\ pool.lastCall.op = "select"
  /\ pool.lastCall.strategy = "least-loaded"
  /\ LET cands == available(pool.workers, pool.lastCall.target)
     IN /\ Len(cands) = 2
        /\ pool.lastCall.ret = {cands[2].id}

\* C17: decrementActive leaves activeRequests at max(0, activeRequests - 1),
\* never below 0; it changes the status only from busy to idle, and does so
\* exactly when the count has dropped below maxConcurrency: an offline or
\* draining worker keeps its status.
C17_DecrementClampsAndKeepsStatus ==
  [][\A id \in PoolIds :
       PoolDecrement(id) =>
         LET w == GetWorker(pool.workers, id)
             v == GetWorker(pool'.workers, id)
         IN /\ v.activeRequests >= 0
            /\ v.activeRequests =
                 (IF w.activeRequests > 0 THEN w.activeRequests - 1 ELSE 0)
            /\ v.status =
                 (IF w.status = "busy" /\ v.activeRequests < w.maxConcurrency
                  THEN "idle" ELSE w.status)
            /\ w.status \in {"offline", "draining"} => v.status = w.status]_vars

\* decrementActive was called on an offline worker with nothing active
C17_Witness ==
  /\ pool.lastCall.op = "decrementActive"
  /\ Target.status = "offline"
  /\ Target.activeRequests = 0

\* the recorded select calls for one role, in call order
SelectionsOf(role) == SelectSeq(pool.selections, LAMBDA c : c.role = role)

\* C16: whenever N consecutive select(role, round-robin) calls all found the
\* same N workers available (N >= 1), they returned each of the N exactly
\* once; this holds for every such run of calls, so also across the wrap.
C16_RoundRobinVisitsEachOnce ==
  \A role \in Roles :
    LET calls == SelectionsOf(role)
    IN \A i \in 1..Len(calls) :
         LET n == Len(calls[i].cands)
             run == i..(i + n - 1)
         IN (/\ n >= 1
             /\ i + n - 1 <= Len(calls)
             /\ \A k \in run : calls[k].cands = calls[i].cands) =>
              {calls[k].ret : k \in run} = SeqSet(calls[i].cands)

\* four calls in a row found p1, p2 and p3 and returned p1, p2, p3, p1
C16_Witness ==
  LET calls == SelectionsOf("prefill")
  IN /\ Len(calls) = 4
     /\ \A k \in 1..4 : calls[k].cands = <<"p1", "p2", "p3">>
     /\ [k \in 1..4 |-> calls[k].ret] = <<"p1", "p2", "p3", "p1">>

\* what expireStaleWorkers(timeoutMs) has to have done in a step: every
\* worker that is not offline afterwards was checked within timeoutMs, and
\* the returned ids are the workers the step took from another status to
\* offline
HasExpired(timeoutMs) ==
  /\ pool'.lastCall.op = "expireStaleWorkers"
  /\ pool'.lastCall.timeoutMs = timeoutMs
  /\ \A i \in 1..Len(pool'.workers) :
       pool'.workers[i].status # "offline" =>
         now' - pool'.workers[i].lastHealthCheck <= timeoutMs
  /\ pool'.lastCall.ret =
       {pool.workers[i].id : i \in {j \in 1..Len(pool.workers) :
                                     /\ pool.workers[j].status # "offline"
                                     /\ pool'.workers[j].status = "offline"}}
  /\ \A i \in 1..Len(pool.workers) :
       pool.workers[i].status = "offline" =>
         pool.workers[i].id \notin pool'.lastCall.ret

\* C18: after expireStaleWorkers(T), called directly or at the end of a
\* health tick, every worker that is not offline has now - lastHealthCheck
\* <= T, and the returned ids are exactly the workers that the call moved
\* from a status other than offline to offline.
C18_ExpireStaleWorkers ==
  [][/\ \A timeoutMs \in 0..WorkerTimeoutMs :
          ExpireStale(timeoutMs) => HasExpired(timeoutMs)
     /\ HealthTickEnd => HasExpired(health.workerTimeoutMs)]_vars

\* a call expired the prefill worker and did not return the decode worker,
\* which was offline before
C18_Witness ==
  /\ pool.lastCall.op = "expireStaleWorkers"
  /\ pool.lastCall.ret = {"p1"}
  /\ GetWorker(pool.workers, "d1").status = "offline"
  /\ now - GetWorker(pool.workers, "d1").lastHealthCheck > pool.lastCall.timeoutMs

\* C19 (as claimed): when a health tick ends, every worker whose
\* lastHealthCheck was older than workerTimeoutMs when the tick began is
\* offline, a worker_offline event for it was emitted during the tick, and
\* it is not in available(role), whatever its probe returned.
C19_StaleWorkerGoesOffline ==
  [][HealthTickEnd =>
       \A id \in health.check.staleAtStart :
         LET w == GetWorker(pool'.workers, id)
         IN /\ w.status = "offline"
            /\ \E i \in (health.check.logAtStart + 1)..Len(health'.eventLog) :
                 health'.eventLog[i] = WorkerEvent("worker_offline", id)
            /\ w \notin SeqSet(available(pool'.workers, w.role))]_vars

\* C20: transfer(job) never rejects: every call that has settled resolved
\* with a result, success = true without an error or success = false with an
\* error text; and a settled call holds no slot, after a success as after a
\* failure: the slots taken are those of the calls still executing, and
\* every call is executing, waiting or settled.
C20_TransferNeverRejects ==
  /\ \A r \in kvManager.results :
       /\ r.promise = "resolved"
       /\ r.success <=> (r.error = Undefined)
       /\ r.job \notin kvManager.executing
       /\ r.job \notin SeqSet(kvManager.pending)
  /\ kvManager.activeTransfers = Cardinality(kvManager.executing)
  /\ Len(kvManager.arrivals) =
       Cardinality(kvManager.executing) + Len(kvManager.pending)
         + Cardinality({r.job : r \in kvManager.results})

\* one transfer succeeded, one that had to wait failed, and every slot is
\* free again
C20_Witness ==
  /\ \E r \in kvManager.results : r.success
  /\ \E r \in kvManager.results :
       /\ ~r.success
       /\ kvManager.arrivals[ArrivalIndex(r.job)].queued
  /\ kvManager.activeTransfers = 0
  /\ kvManager.maxConcurrent > 0


\* client.prefill of request rid returns in this step
PrefillReturns(rid) ==
  /\ rid \in RequestIds
  /\ pc[rid].at = "prefill"
  /\ EventCount("prefill_completed", rid) = 0
  /\ EventCount("prefill_completed", rid)' = 1

\* no decode worker is available once the prefill worker of rid is released
NoDecodeAvailable(rid) ==
  available(decrementActive(pool, requests[rid].prefillWorkerId).workers,
            "decode") = <<>>

\* C21: when client.prefill of a request returns while no decode worker is
\* available, that step fails the request with the no-decode-worker error:
\* its phase is failed, its promise is rejected with that error,
\* request_failed is emitted once, no transfer_started is emitted for it, the
\* transfer manager is left as it was (no job submitted), the request is not
\* put back into the queue and its pipeline has returned with a single
\* prefill_started in the log.
C21_NoDecodeWorkerFails ==
  [][\A rid \in RequestIds :
       PrefillReturns(rid) /\ NoDecodeAvailable(rid) =>
         /\ requests'[rid].phase = "failed"
         /\ promises'[rid].state = "rejected"
         /\ promises'[rid].error = NoDecodeWorker
         /\ EventCount("request_failed", rid)' = 1
         /\ EventCount("transfer_started", rid)' = 0
         /\ kvManager' = kvManager
         /\ \A i \in 1..Len(sched'.queue) : sched'.queue[i] # rid
         /\ rid \notin sched'.inflight
         /\ pc'[rid].at = "done"
         /\ EventCount("prefill_started", rid)' = 1]_vars

\* a request was failed with the no-decode-worker error while the only decode
\* worker was busy with another request
C21_Witness ==
  \E a, b \in RequestIds :
    /\ promises[b].error = NoDecodeWorker
    /\ pc[b].at = "done"
    /\ EventCount("prefill_completed", b) = 1
    /\ EventCount("transfer_started", b) = 0
    /\ requests[a].phase = "decoding"


\* no worker of some role is available
NoWorkerAvailable ==
  \/ available(pool.workers, "prefill") = <<>>
  \/ available(pool.workers, "decode") = <<>>

\* C22 (as claimed): in a step taken while no prefill worker or no decode
\* worker is available, no queued request leaves the queue for the pipeline,
\* and no request is failed for want of a worker (failures by queue timeout
\* or by a failing prefill, transfer or decode call aside).
C22_NoProgressWithoutWorkers ==
  [][NoWorkerAvailable =>
       \A rid \in RequestIds :
         /\ pc[rid].at = "queue" => pc'[rid].at = "queue"
         /\ promises[rid].state = "pending" /\ promises'[rid].state = "rejected"
              => promises'[rid].error # NoDecodeWorker]_vars

\* the half of C22 that the code keeps: while no prefill worker is
\* available, no queued request leaves the queue for the pipeline
C22_NoPrefillWorkerNoDispatch ==
  [][available(pool.workers, "prefill") = <<>> =>
       \A rid \in RequestIds : pc[rid].at = "queue" => pc'[rid].at = "queue"]_vars


\* the place in the event log of the event of that kind of request rid
\* (0 when the log has none)
LogIndex(kind, rid) ==
  IF EventCount(kind, rid) = 0 THEN 0
  ELSE CHOOSE i \in 1..Len(health.eventLog) : health.eventLog[i] = Event(kind, rid)

\* both requests have their transfer_completed in the log
BothTransferred(a, b) ==
  /\ a # b
  /\ EventCount("transfer_completed", a) = 1
  /\ EventCount("transfer_completed", b) = 1

\* C23 (as claimed): with kvTransfer.maxConcurrent = 1 at most one transfer
\* is active, and the transfer_completed events are in the order in which
\* the requests were submitted (request ids are handed out at submit).
C23_TransfersInSubmissionOrder ==
  kvManager.maxConcurrent = 1 =>
    /\ kvManager.activeTransfers <= 1
    /\ \A a, b \in RequestIds :
         BothTransferred(a, b) /\ a < b =>
           LogIndex("transfer_completed", a) < LogIndex("transfer_completed", b)

\* C23 (amended): with kvTransfer.maxConcurrent = 1 at most one transfer is
\* active (one slot taken, one call executing), and the transfer_completed
\* events are in the order in which the transfers were started, that is the
\* order of the transfer_started events of the same requests.
C23_TransfersInStartOrder ==
  kvManager.maxConcurrent = 1 =>
    /\ kvManager.activeTransfers <= 1
    /\ Cardinality(kvManager.executing) <= 1
    /\ \A a, b \in RequestIds :
         BothTransferred(a, b)
           /\ LogIndex("transfer_started", a) < LogIndex("transfer_started", b) =>
             LogIndex("transfer_completed", a) < LogIndex("transfer_completed", b)

\* two requests were in the transfer stage at once, one of them waiting for
\* the slot, and the one submitted later will be the first to complete
C23_Witness ==
  \E a, b \in RequestIds :
    /\ a < b
    /\ kvManager.maxConcurrent = 1
    /\ pc[a].at = "transfer" /\ pc[b].at = "transfer"
    /\ b \in kvManager.executing
    /\ kvManager.pending = <<a>>


\* request rid is inside runPipeline, at one of its three awaits
InPipeline(rid) == pc[rid].at \in {"prefill", "transfer", "decode"}

\* C24: while the scheduler is stopped no request is dispatched: no step
\* taken in a stopped state emits a prefill_started or moves a request out of
\* the queue into the pipeline; and every request that is in the pipeline
\* while the scheduler is stopped still reaches completed or failed with its
\* promise settled and its pipeline returned.
C24_StopIsGraceful ==
  /\ [][~sched.running =>
          \A rid \in RequestIds :
            /\ EventCount("prefill_started", rid)' = EventCount("prefill_started", rid)
            /\ pc[rid].at = "queue" => pc'[rid].at = "queue"]_vars
  /\ \A rid \in 1..MaxRequests :
       (IF rid <= idCounter THEN InPipeline(rid) /\ ~sched.running ELSE FALSE)
         ~> (IF rid <= idCounter
             THEN /\ requests[rid].phase \in TerminalPhases
                  /\ promises[rid].state # "pending"
                  /\ pc[rid].at = "done"
             ELSE FALSE)

\* stop() was called while one request was in the pipeline and another in
\* the queue; the first has completed and the second is still queued
C24_Witness ==
  \E a, b \in RequestIds :
    /\ sched.lifecycle = "stop"
    /\ requests[a].phase = "completed"
    /\ promises[a].state = "resolved"
    /\ requests[b].phase = "queued"
    /\ sched.queue = <<b>>
    /\ available(pool.workers, "prefill") # <<>>


\* C25: at any time there is at most one dispatch interval timer and at most
\* one health interval timer, and exactly one of each if the latest of
\* start() and stop() to be called was start(), none of either otherwise;
\* start() on a running scheduler leaves every field as it is, and so does
\* stop() on a stopped one.
C25_StartStopIdempotent ==
  /\ sched.intervals <= 1
  /\ health.intervals <= 1
  /\ sched.lifecycle = "start" => sched.intervals = 1 /\ health.intervals = 1
  /\ sched.lifecycle # "start" => sched.intervals = 0 /\ health.intervals = 0
  /\ sched.running <=> sched.lifecycle = "start"
  /\ sched.running => start(World) = World
  /\ ~sched.running => stop(World) = [World EXCEPT !.sched.lifecycle = "stop"]

\* the scheduler is running with one timer of each kind, one request has
\* completed and another waits in the queue for the next tick; a further
\* start() changes nothing and a second stop() adds nothing to the first
C25_Witness ==
  /\ sched.lifecycle = "start"
  /\ sched.intervals = 1
  /\ health.intervals = 1
  /\ start(World) = World
  /\ stop(stop(World)) = stop(World)
  /\ \E a, b \in RequestIds :
       /\ requests[a].phase = "completed"
       /\ sched.queue = <<b>>
       /\ available(pool.workers, "prefill") # <<>>


\* the newest n elements of a sequence, all of it when it has fewer
Newest(s, n) ==
  LET k == IF n < Len(s) THEN n ELSE Len(s)
  IN SubSeq(s, Len(s) - k + 1, Len(s))

\* C26: the event log never holds more than 1,000 events, and it holds
\* exactly the newest min(n, 1000) of the n events emitted so far, in the
\* order of emission.
C26_EventLogIsNewest1000 ==
  /\ Len(health.eventLog) <= 1000
  /\ health.eventLog = Newest(health.history, 1000)

\* more than 1,000 events have been emitted and the two oldest are gone
C26_Witness ==
  /\ Len(health.history) = 1002
  /\ Len(health.eventLog) = 1000
  /\ health.eventLog[1] = health.history[3]
  /\ health.eventLog[1000] = health.history[1002]

\* the limits recentEvents is called with; NoNumber: the limit is left out
Limits == {NoNumber, 0, 1, 2, 50, 1000, 1001}

\* C27 (as claimed): recentEvents(limit) returns exactly the newest
\* min(limit, log size) events in the order of emission, for every
\* limit >= 0, with 50 as the limit when it is left out; it never returns
\* more than limit events.
C27_RecentEventsExact ==
  \A limit \in Limits :
    LET n == IF limit = NoNumber THEN 50 ELSE limit
        ret == recentEvents(World, limit)
    IN /\ ret = Newest(health.eventLog, n)
       /\ Len(ret) <= n

\* what the code keeps of C27: for every limit > 0, and for the default
C27_RecentEventsPositiveLimit ==
  \A limit \in Limits \ {0} :
    LET n == IF limit = NoNumber THEN 50 ELSE limit
    IN recentEvents(World, limit) = Newest(health.eventLog, n)

\* the samples a window should hold after these pushes
NewestSamples(all) == Newest(all, 200)

\* r is an integer nearest to sum / n
NearestInteger(r, sum, n) ==
  LET d == r * n - sum
  IN 2 * (IF d < 0 THEN 0 - d ELSE d) <= n

\* C28: each latency window holds the newest min(n, 200) of the n samples
\* recorded for it, in order, and the average that snapshot reports for it is
\* an integer nearest to the arithmetic mean of those samples, 0 when there
\* are none.
C28_WindowAverage ==
  LET s == snapshot(World)
      Ok(window, all, avg) ==
        /\ window = NewestSamples(all)
        /\ Len(window) <= 200
        /\ IF all = <<>> THEN avg = 0
           ELSE NearestInteger(avg, SumSeq(NewestSamples(all)),
                               Len(NewestSamples(all)))
  IN /\ Ok(health.latency.total, health.recorded.total, s.avgLatencyMs)
     /\ Ok(health.latency.prefill, health.recorded.prefill, s.avgPrefillLatencyMs)
     /\ Ok(health.latency.decode, health.recorded.decode, s.avgDecodeLatencyMs)

\* a window has dropped its two oldest samples, and an average was rounded
\* up: the mean of the total window lies strictly between avg - 1/2 and avg
C28_Witness ==
  /\ Len(health.recorded.total) = 202
  /\ Len(health.latency.total) = 200
  /\ health.latency.total[200] = 40
  /\ LET sum == SumSeq(health.latency.total)
         avg == snapshot(World).avgLatencyMs
     IN  /\ avg * 200 > sum
         /\ 2 * (avg * 200 - sum) < 200


\* client.prefill of request rid throws in this step
PrefillFails(rid) ==
  /\ pc[rid].at = "prefill"
  /\ promises[rid].state = "pending"
  /\ promises'[rid].state = "rejected"
  /\ promises'[rid].error = PrefillFailed

\* C29 (as claimed): the step in which the prefill call of a request fails
\* and the request is failed also takes the request off its prefill worker:
\* the worker's activeRequests is one less than before, which is its value
\* before the request was dispatched.
C29_PrefillFailureReleasesWorker ==
  [][\A rid \in RequestIds :
       PrefillFails(rid) =>
         LET id == requests[rid].prefillWorkerId
         IN GetWorker(pool'.workers, id).activeRequests
              = GetWorker(pool.workers, id).activeRequests - 1]_vars


\* C30 (as claimed): a step that is fail(requestId, err) for an id that is
\* not in the in-flight table changes neither the failure counter nor the
\* event log nor the queue nor the in-flight table.
C30_FailUnknownIsNoOp ==
  [][\A id \in 1..(MaxRequests + 1) :
       id \notin sched.inflight /\ Commit(fail(World, id, QueueTimeout)) =>
         /\ health'.counters = health.counters
         /\ health'.eventLog = health.eventLog
         /\ sched'.queue = sched.queue
         /\ sched'.inflight = sched.inflight]_vars

\* what the code keeps of C30: such a step leaves the queue, the in-flight
\* table, every request and every promise as they were
C30_FailUnknownKeepsRequests ==
  [][\A id \in 1..(MaxRequests + 1) :
       id \notin sched.inflight /\ Commit(fail(World, id, QueueTimeout)) =>
         /\ sched' = sched
         /\ requests' = requests
         /\ promises' = promises]_vars


\* the requests in that phase
InPhase(phase) == {rid \in RequestIds : requests[rid].phase = phase}

\* C31: every error of a pipeline phase ends in fail exactly once: a request
\* whose pipeline has returned without completing has one request_failed
\* event, a promise rejected by a single call, with the error of the phase
\* that raised it, and no request_completed; and the snapshot's totalFailed
\* is the number of failed requests and totalCompleted the number of completed
\* ones.
C31_ErrorsFailOnce ==
  /\ \A rid \in RequestIds :
       pc[rid].at = "done" /\ requests[rid].phase # "completed" =>
         /\ requests[rid].phase = "failed"
         /\ EventCount("request_failed", rid) = 1
         /\ EventCount("request_completed", rid) = 0
         /\ promises[rid] \in
              {[state |-> "rejected", calls |-> 1, error |-> e] :
                 e \in {PrefillFailed, NoDecodeWorker, TransferFailed, DecodeFailed}}
  /\ snapshot(World).totalFailed = Cardinality(InPhase("failed"))
  /\ snapshot(World).totalCompleted = Cardinality(InPhase("completed"))

\* one request failed in its transfer and another in its decode call
C31_Witness ==
  \E a, b \in RequestIds :
    /\ promises[a].error = TransferFailed
    /\ promises[b].error = DecodeFailed
    /\ health.counters.failed = 2


\* C32 (as claimed): activePrefills is the number of requests in phase
\* prefilling and activeDecodes the number in phase decoding, in every
\* state, also after requests have failed in those phases.
C32_ActiveCountersMatchPhases ==
  /\ sched.activePrefills = Cardinality(InPhase("prefilling"))
  /\ sched.activeDecodes = Cardinality(InPhase("decoding"))


\* C33 (as claimed): every worker that is neither offline nor draining is
\* busy exactly when its activeRequests equals its maxConcurrency.
C33_BusyIffAtCapacity ==
  \A i \in 1..Len(pool.workers) :
    LET w == pool.workers[i]
    IN w.status \notin {"offline", "draining"} =>
         (w.status = "busy" <=> w.activeRequests = w.maxConcurrency)


\* the requests a step moves from the queue into the pipeline
Launched ==
  {rid \in RequestIds : pc[rid].at = "queue" /\ pc'[rid].at # "queue"}

\* C34: no step, and so no dispatch tick, launches more than one request:
\* at most one request leaves the queue for the pipeline and at most one
\* prefill_started is emitted, however many are queued and however much
\* capacity the prefill workers have.
C34_OneLaunchPerTick ==
  [][/\ Cardinality(Launched) <= 1
     /\ Cardinality({i \in 1..Len(health'.history) :
                       /\ i > Len(health.history)
                       /\ health'.history[i].kind = "prefill_started"}) <= 1]_vars

\* the tick that launched request 3 left requests 1 and 2 in the queue,
\* neither of them expired, with the prefill worker still taking requests
C34_Witness ==
  /\ idCounter = 3
  /\ requests[3].phase = "prefilling"
  /\ SeqSet(sched.queue) = {1, 2}
  /\ \A rid \in {1, 2} : requests[rid].phase = "queued" /\ ~Expired(rid)
  /\ available(pool.workers, "prefill") # <<>>


\* what a tick that finds no prefill worker has to leave behind, for a given
\* notion of expiry: the sorted queue without its expired entries, and every
\* request that is not expired in its phase
KeepsQueue(IsExpired(_)) ==
  LET live == {rid \in SeqSet(sched.queue) : ~IsExpired(rid)}
  IN /\ sched'.queue = FilterSeq(SortQueue(World, sched.queue), live)
     /\ \A rid \in RequestIds \ (SeqSet(sched.queue) \ live) :
          requests'[rid].phase = requests[rid].phase

\* C35 (as claimed): a dispatch tick for which select("prefill") returns no
\* worker leaves the queue equal to the sorted queue minus the expired
\* entries (now - createdAt > timeoutMs) and changes the phase of no request
\* that is not expired.
C35_NoWorkerKeepsQueue ==
  [][Dispatch /\ available(pool.workers, "prefill") = <<>> =>
       KeepsQueue(Expired)]_vars

\* the same with expiry as the sweep tests it (a timeoutMs of 0 never
\* expires)
C35_NoWorkerKeepsUnsweptQueue ==
  [][Dispatch /\ available(pool.workers, "prefill") = <<>> =>
       KeepsQueue(LAMBDA rid : TimedOut(World, rid))]_vars


\* C36 (as claimed): a step that is a select(role, round-robin) call, with or
\* without a worker to return, advances the counter of that role by exactly
\* one and leaves the counter of the other role alone.
C36_RoundRobinCounterAdvances ==
  [][\A role \in Roles :
       RoundRobinSelect(role) =>
         \A r \in Roles :
           pool'.roundRobinCounters[r] =
             pool.roundRobinCounters[r] + (IF r = role THEN 1 ELSE 0)]_vars

\* what the code keeps of C36: a call that finds a candidate advances the
\* counter of its role by one, a call that finds none leaves it, and the
\* other role's counter never moves
C36_RoundRobinCounterAdvancesOnHit ==
  [][\A role \in Roles :
       RoundRobinSelect(role) =>
         \A r \in Roles :
           pool'.roundRobinCounters[r] =
             pool.roundRobinCounters[r]
               + (IF r = role /\ available(pool.workers, role) # <<>>
                  THEN 1 ELSE 0)]_vars


\* C37: the step in which a probe of a health tick returns patches that
\* worker and no other. Healthy: gpuUtilization and activeRequests are the
\* probed values, status is busy if the probed activeRequests >=
\* maxConcurrency and idle otherwise, lastHealthCheck is now, and nothing is
\* emitted. Unhealthy: status is offline, the other fields and
\* lastHealthCheck are kept, and one worker_offline event for it is emitted.
\* Either way the probes of the other workers stay outstanding, to be
\* processed when they return.
C37_ProbeResultApplied ==
  [][\A id \in {"p1", "d1"}, result \in HealthResults :
       Probed(id, result) =>
         LET before == GetWorker(pool.workers, id)
             after == GetWorker(pool'.workers, id)
         IN /\ IF result.healthy
               THEN /\ after = [before EXCEPT
                                  !.gpuUtilization = result.gpuUtilization,
                                  !.activeRequests = result.activeRequests,
                                  !.status =
                                     IF result.activeRequests >= before.maxConcurrency
                                     THEN "busy" ELSE "idle",
                                  !.lastHealthCheck = now]
                    /\ health'.eventLog = health.eventLog
               ELSE /\ after = [before EXCEPT !.status = "offline"]
                    /\ health'.eventLog =
                         Append(health.eventLog, WorkerEvent("worker_offline", id))
            /\ \A other \in {"p1", "d1"} \ {id} :
                 GetWorker(pool'.workers, other) = GetWorker(pool.workers, other)
            /\ health'.check.probing = health.check.probing \ {id}]_vars

\* in one health tick, after the clock has moved, the probe of p1 failed and
\* the probe of d1 then reported it at capacity
C37_Witness ==
  /\ health.check.running
  /\ health.check.probing = {}
  /\ now > 0
  /\ GetWorker(pool.workers, "p1").status = "offline"
  /\ GetWorker(pool.workers, "p1").lastHealthCheck < now
  /\ GetWorker(pool.workers, "d1").status = "busy"
  /\ GetWorker(pool.workers, "d1").activeRequests = 1
  /\ GetWorker(pool.workers, "d1").lastHealthCheck = now
  /\ Len(health.eventLog) = health.check.logAtStart + 1
  /\ health.eventLog[Len(health.eventLog)] = WorkerEvent("worker_offline", "p1")


\* the requests in phase decoding on that worker
DecodingOn(id) ==
  {rid \in InPhase("decoding") : requests[rid].decodeWorkerId = id}

\* C38 (as claimed): with the scheduler alone changing the pool, no decode
\* worker ever has more requests in phase decoding than its maxConcurrency.
C38_DecodingWithinCapacity ==
  \A i \in 1..Len(pool.workers) :
    pool.workers[i].role = "decode" =>
      Cardinality(DecodingOn(pool.workers[i].id)) <= pool.workers[i].maxConcurrency


\* the queue is empty and every accepted request has settled
Quiescent ==
  /\ sched.queue = <<>>
  /\ \A rid \in RequestIds :
       /\ promises[rid].state # "pending"
       /\ pc[rid].at \in {"queue", "done"}

\* C39 (as claimed): whenever the queue is empty and no pipeline is running,
\* with the scheduler alone changing the pool, every worker has
\* activeRequests = 0 and none is busy.
C39_QuiescentPoolIsIdle ==
  Quiescent =>
    \A i \in 1..Len(pool.workers) :
      /\ pool.workers[i].activeRequests = 0
      /\ pool.workers[i].status # "busy"


\* C40 (as claimed): a worker that is draining stays draining while it is in
\* the pool unless the step is an updateMetrics call for its id, the call by
\* which an operator changes a status; incrementActive, decrementActive,
\* select, register and markOffline never turn a draining worker into idle
\* or busy.
C40_DrainingIsSticky ==
  [][\A id \in PoolIds :
       (/\ HasWorker(pool.workers, id)
        /\ GetWorker(pool.workers, id).status = "draining"
        /\ HasWorker(pool'.workers, id)
        /\ GetWorker(pool'.workers, id).status \in {"idle", "busy"}) =>
         (/\ pool'.lastCall.op = "updateMetrics"
          /\ pool'.lastCall.target = id)]_vars

\* C40, side check: decrementActive alone never moves a draining worker.
C40_DecrementKeepsDraining ==
  [][\A id \in PoolIds :
       (/\ HasWorker(pool.workers, id)
        /\ GetWorker(pool.workers, id).status = "draining"
        /\ pool'.lastCall.op = "decrementActive"
        /\ HasWorker(pool'.workers, id)) =>
         GetWorker(pool'.workers, id).status = "draining"]_vars

====
